---- MODULE Spec2Model ----
(***************************************************************************)
(* Desired-state modules for a VPLEX appliance (dell/ansible-vplex).       *)
(* The appliance is the only state; every module invocation is one atomic  *)
(* action that reads the appliance, checks, issues remote calls and        *)
(* reports {changed, details} or a failure.  A behaviour is one task of a  *)
(* playbook run again and again: `task` is the task's request, `last` the   *)
(* outcome of its most recent run, and `tick` flips at every run so that   *)
(* every run is a visible step.  Init ranges over the appliance states     *)
(* and the requests, so every request is run in every appliance state.     *)
(***************************************************************************)
EXTENDS Integers, Sequences, FiniteSets, TLC

VARIABLES
    cgs,        \* names of the local consistency groups of the cluster
    dcgs,       \* names of the distributed consistency groups
    remote_cgs, \* names of the local consistency groups of the other cluster
    vvols,      \* virtual volume name -> volume record of the cluster
    jobs,       \* migration job name -> job record, for the task's storage kind
    sobjs,      \* cluster -> name -> device or extent record (the task's storage kind)
    devices,    \* device name -> local device record of the cluster
    dist_vols,  \* names of the distributed virtual volumes
    remote_vols,    \* names of the virtual volumes of the other clusters
    remote_devs,    \* names of the devices of the other clusters
    vplex_version,  \* 6 for a 6.2 setup, 7 for a later one
    directors_ok,   \* TRUE when every director's communication status is ok
    ports,      \* port address -> initiator port record of the cluster
    views,      \* storage view name -> storage view record of the cluster
    extents,    \* extent name -> extent record of the cluster
    ldevs,      \* device name -> local device record, as the device module reads it
    degraded,   \* name of a cluster whose operational_status is degraded, or None
    ddevs,      \* distributed device name -> distributed device record
    dvvs,       \* distributed virtual volume name -> volume record
    dcgrps,     \* distributed consistency group name -> group record
    fe_ports,   \* front-end port name -> port record, as the port module reads it
    procs,      \* invocations running side by side: name -> position and context
    task,       \* the request (module parameters) of the task
    last,       \* outcome of the most recent invocation
    tick        \* flips at every invocation

vars == <<cgs, dcgs, remote_cgs, vvols, jobs, sobjs, devices, dist_vols, remote_vols,
          remote_devs, vplex_version, directors_ok, ports, views, extents,
          ldevs, degraded, ddevs, dvvs, dcgrps, fe_ports, procs, task, last, tick>>

cgVars == <<cgs, dcgs, remote_cgs>>
migVars == <<jobs, sobjs>>
initVars == <<ports>>
vvVars == <<devices, dist_vols, remote_vols, remote_devs, vplex_version, directors_ok>>
svVars == <<views>>
devVars == <<extents, ldevs>>
distVars == <<degraded, ddevs, dvvs, dcgrps>>

\* Python's None
None == "None"

\* the cluster the cluster-local modules address, and the clusters
Cluster == "cluster-1"
Clusters == {"cluster-1", "cluster-2"}

\* front-end ports the port module addresses; "PX" is a name no port has
FePortNames == {"P1", "P2"}

\* a front-end port that does not exist
NoFePort == [exists |-> FALSE, enabled |-> FALSE]

\* the appliance without front-end ports, for the modules that read none
NoFePorts == [p \in FePortNames |-> NoFePort]

\* no invocations side by side: a playbook runs its tasks one after another
NoProcs == <<>>

----------------------------------------------------------------------------
(* Bounds *)

\* longest virtual_volumes list of a consistency group request
MaxVolList == 2

----------------------------------------------------------------------------
(* Names *)

\* names that utils.validate_name rejects
BadNames == {"9cg", "9m", "9v", "9dg", "9dd", "9dv"}

\* consistency group names used in requests
CgNames == {"cg1", "cg2", "9cg"}

\* virtual volumes of the cluster; "vX" is a name no volume has
VolNames == {"v1", "v2"}
ReqVolNames == VolNames \cup {"vX"}

\* the characters [a-zA-Z_] a name starts with
NameStart ==
    {"a", "b", "c", "d", "e", "f", "g", "h", "i", "j", "k", "l", "m",
     "n", "o", "p", "q", "r", "s", "t", "u", "v", "w", "x", "y", "z",
     "A", "B", "C", "D", "E", "F", "G", "H", "I", "J", "K", "L", "M",
     "N", "O", "P", "Q", "R", "S", "T", "U", "V", "W", "X", "Y", "Z", "_"}

\* the characters [\w\-\_] a name goes on with
NameRest == NameStart \cup {"0", "1", "2", "3", "4", "5", "6", "7", "8", "9", "-"}

\* char_len of most modules, and of the storage view and initiator modules
MaxNameLen == 63
ShortNameLen == 36

\* utils.validate_name(name, char_len, field): TRUE when the name is no
\* longer than char_len and matches ^[a-zA-Z_][\w\-\_]*$
validate_name_len(name, char_len) ==
    /\ Len(name) <= char_len
    /\ Len(name) >= 1
    /\ SubSeq(name, 1, 1) \in NameStart
    /\ \A i \in 2..Len(name) : SubSeq(name, i, i) \in NameRest

\* utils.validate_name with char_len 63
validate_name(name) == validate_name_len(name, MaxNameLen)

\* utils.validate_name with char_len 36
validate_name36(name) == validate_name_len(name, ShortNameLen)

\* a volume that does not exist
NoVol == [exists |-> FALSE, consistency_group |-> None, visibility |-> None,
          service_status |-> None, supporting_device |-> None, capacity |-> 0,
          expandable_capacity |-> 0, locality |-> None]

\* a local virtual volume
Vol(cg, vis, svc, dev, cap, expcap) ==
    [exists |-> TRUE, consistency_group |-> cg, visibility |-> vis,
     service_status |-> svc, supporting_device |-> dev, capacity |-> cap,
     expandable_capacity |-> expcap, locality |-> "local"]

\* local devices of the cluster: D0 supports a volume, D1..D3 can extend it
DevNames == {"D0", "D1", "D2", "D3"}

\* a device that does not exist
NoDev == [exists |-> FALSE, virtual_volume |-> None, top_level |-> FALSE,
          rebuild_status |-> None, capacity |-> 0, children |-> <<>>]

\* the appliance without devices, for the modules that read none
NoDevices == [d \in DevNames |-> NoDev]

\* the record standing for "no consistency group" (Python None)
NoCg == [name |-> None, virtual_volumes |-> {}]

\* migration job names of the appliance; requests also use the invalid "9m"
MigNames == {"m1"}

\* devices or extents a migration can name
ObjNames == {"d1", "d2"}

\* the record standing for "no migration job"
NoJob == [name |-> None, status |-> None, transfer_size |-> 0,
          source |-> <<>>, target |-> <<>>]

\* a device or extent that does not exist
NoObj == [exists |-> FALSE, capacity |-> 0, virtual_volume |-> None, use |-> None]

\* the appliance without initiator ports, for the modules that read none
NoPorts == [id \in {"w1", "q1"} |->
               [name |-> None, type |-> None, port_wwn |-> None, iscsi_name |-> None]]

\* the part of the appliance only the virtual volume module reads, left empty
NoVvState ==
    /\ devices = NoDevices
    /\ dist_vols = {}
    /\ remote_vols = {}
    /\ remote_devs = {}
    /\ vplex_version = 6
    /\ directors_ok = TRUE

\* storage views of the cluster; "sv3" is free for a rename, "9sv" is invalid
SvNames == {"sv1", "sv2", "sv3"}

\* a storage view that does not exist
NoView == [exists |-> FALSE, ports |-> {}, initiators |-> {}, virtual_volumes |-> {}]

\* the appliance without storage views, for the modules that read none
NoSvState == views = [n \in SvNames |-> NoView]

\* extents of the cluster; "eX" is a name no extent has
ExtNames == {"e1", "e2"}

\* an extent that does not exist
NoExt == [exists |-> FALSE, use |-> None, used_by |-> None, capacity |-> 0]

\* local devices the device module addresses; "L3" is free for a rename,
\* "DD1" is the name a distributed device may have as well
LdevNames == {"L1", "L2", "L3", "DD1"}

\* a local device that does not exist, as the device module reads devices
NoLdev == [exists |-> FALSE, geometry |-> None, rebuilding |-> FALSE,
           virtual_volume |-> None, capacity |-> 0, transfer_size |-> 0,
           mirrors |-> {}]

\* the appliance without extents and devices, for the modules that read none
NoDevState ==
    /\ extents = [e \in ExtNames |-> NoExt]
    /\ ldevs = [d \in LdevNames |-> NoLdev]

\* distributed devices; "DD2" is free for a rename
DdNames == {"DD1", "DD2"}

\* a distributed device that does not exist
NoDdev == [exists |-> FALSE, virtual_volume |-> None, rebuild_status |-> None,
           rule_set_name |-> None, legs |-> {}, capacity |-> 0]

\* distributed virtual volumes; "dv2" is free for a rename
DvvNames == {"dv1", "dv2"}

\* a distributed virtual volume that does not exist
NoDvv == [exists |-> FALSE, service_status |-> None, consistency_group |-> None,
          supporting_device |-> None, expansion_method |-> None,
          expandable_capacity |-> 0, capacity |-> 0, locality |-> None]

\* distributed consistency groups; "dg3" is free for a rename
DcgNames == {"dg1", "dg2", "dg3"}

\* a distributed consistency group that does not exist
NoDcg == [exists |-> FALSE, auto_resume_at_loser |-> FALSE, detach_rule |-> None,
          suspended |-> FALSE]

\* the appliance without distributed resources and with every cluster ok
NoDistState ==
    /\ degraded = None
    /\ ddevs = [d \in DdNames |-> NoDdev]
    /\ dvvs = [v \in DvvNames |-> NoDvv]
    /\ dcgrps = [g \in DcgNames |-> NoDcg]

\* all sequences over S of length 0..n
RECURSIVE SeqsUpTo(_, _)
SeqsUpTo(S, n) ==
    IF n = 0 THEN {<<>>}
    ELSE LET shorter == SeqsUpTo(S, n - 1)
         IN  shorter \cup {Append(s, x) : s \in {t \in shorter : Len(t) = n - 1}, x \in S}

----------------------------------------------------------------------------
(* The appliance: consistency groups *)

\* members of a consistency group: the volumes whose consistency_group is it
CgMembers(vols, cg) ==
    {v \in DOMAIN vols : vols[v].exists /\ vols[v].consistency_group = cg}

\* ConsistencyGroupApi.get_consistency_group, serialized
CgRecord(groups, vols, cg) ==
    IF cg \in groups THEN [name |-> cg, virtual_volumes |-> CgMembers(vols, cg)]
    ELSE NoCg

\* one patch operation applied by the appliance to group cg;
\* ok = FALSE when the appliance rejects it
ApplyCgOp(w, cg, op) ==
    IF ~w.ok THEN w
    ELSE IF op.path = "/virtual_volumes" /\ op.op = "add" THEN
        LET v == op.value[3]
        IN  IF v \in DOMAIN w.vvols /\ w.vvols[v].exists
               /\ w.vvols[v].consistency_group = None
            THEN [w EXCEPT !.vvols[v].consistency_group = w.name]
            ELSE [w EXCEPT !.ok = FALSE]
    ELSE IF op.path = "/virtual_volumes" /\ op.op = "remove" THEN
        LET v == op.value[3]
        IN  IF v \in DOMAIN w.vvols /\ w.vvols[v].exists
               /\ w.vvols[v].consistency_group = w.name
            THEN [w EXCEPT !.vvols[v].consistency_group = None]
            ELSE [w EXCEPT !.ok = FALSE]
    ELSE IF op.path = "/name" /\ op.op = "replace" THEN
        IF op.value \notin w.cgs /\ op.value \notin BadNames
        THEN [w EXCEPT !.cgs = (w.cgs \ {w.name}) \cup {op.value},
                       !.vvols = [v \in DOMAIN w.vvols |->
                                    IF w.vvols[v].consistency_group = w.name
                                    THEN [w.vvols[v] EXCEPT !.consistency_group = op.value]
                                    ELSE w.vvols[v]],
                       !.name = op.value]
        ELSE [w EXCEPT !.ok = FALSE]
    ELSE [w EXCEPT !.ok = FALSE]

RECURSIVE ApplyCgOps(_, _, _)
ApplyCgOps(w, cg, ops) ==
    IF ops = <<>> THEN w
    ELSE ApplyCgOps(ApplyCgOp(w, cg, Head(ops)), cg, Tail(ops))

\* ConsistencyGroupApi.patch_consistency_group: the whole array is applied
\* atomically, or nothing is
patch_consistency_group(groups, vols, cg, ops) ==
    LET w0 == [ok |-> cg \in groups, cgs |-> groups, vvols |-> vols, name |-> cg]
        w  == ApplyCgOps(w0, cg, ops)
    IN  IF w.ok THEN w ELSE [w0 EXCEPT !.ok = FALSE]

----------------------------------------------------------------------------
(* Outcome of an invocation *)

\* a remote call that changes the appliance, as logged by the invocation
Call(op, res, val) == [op |-> op, res |-> res, val |-> val]

\* module.fail_json: the invocation ends with a failure of the given kind
\* ("input", "precondition" or "remote") and reports nothing else
fail_json(c, kind, msg) ==
    [c EXCEPT !.status = "failed", !.kind = kind, !.msg = msg]

\* what is kept of an invocation in `last`
Outcome(module, c, appChanged) ==
    [module |-> module, status |-> c.status, kind |-> c.kind,
     msg |-> c.msg,
     changed |-> IF c.status = "ok" THEN c.changed ELSE FALSE,
     calls |-> c.calls, details |-> c.details, appChanged |-> appChanged,
     planned |-> IF "patch" \in DOMAIN c THEN c.patch ELSE <<>>,
     found |-> IF "found" \in DOMAIN c THEN c.found ELSE None,
     warned |-> IF "warned" \in DOMAIN c THEN c.warned ELSE FALSE,
     capacities |-> IF "capacities" \in DOMAIN c THEN c.capacities ELSE <<>>]

\* before the first invocation
NoOutcome ==
    [module |-> None, status |-> None, kind |-> None,
     msg |-> None, changed |-> FALSE, calls |-> <<>>, details |-> None,
     appChanged |-> FALSE, planned |-> <<>>, found |-> None, warned |-> FALSE,
     capacities |-> <<>>]

----------------------------------------------------------------------------
(* Consistency group module *)

\* ConsistencyGroup.get_v_vol_uri
get_v_vol_uri(cluster_name, v_vol) == <<cluster_name, "virtual_volumes", v_vol>>

\* ConsistencyGroup.get_cgrp_patch_payload
get_cgrp_patch_payload(operation, path, value) ==
    [op |-> operation, path |-> path, value |-> value]

\* ConsistencyGroup.get_cgrp: list the groups, then get the one named
get_cgrp(c, cg_name) == CgRecord(c.cgs, c.vvols, cg_name)

\* get_distributed_consistency_groups: the names of the groups that exist
DistributedCgNames(grps) == {g \in DOMAIN grps : grps[g].exists}

\* ConsistencyGroup.check_name_in_distributed_cg
check_name_in_distributed_cg(c, cg_name) ==
    IF cg_name \in c.dcgs THEN cg_name ELSE None

\* ConsistencyGroup.create_cgrp
create_cgrp(c, cg_name) ==
    LET called == [c EXCEPT !.calls = Append(@, Call("create", cg_name, <<>>))]
    IN  IF cg_name \in c.cgs
        THEN fail_json(called, "remote", "Could not create consistency group")
        ELSE [called EXCEPT !.cgs = @ \cup {cg_name},
                            !.details = [name |-> cg_name, virtual_volumes |-> {}],
                            !.changed = TRUE]

\* ConsistencyGroup.delete_cgrp; the appliance destroys only empty groups
delete_cgrp(c, cg_name) ==
    LET called == [c EXCEPT !.calls = Append(@, Call("delete", cg_name, <<>>))]
    IN  IF cg_name \notin c.cgs \/ CgMembers(c.vvols, cg_name) # {}
        THEN fail_json(called, "remote", "Could not delete consistency group")
        ELSE [called EXCEPT !.cgs = @ \ {cg_name},
                            !.details = NoCg,
                            !.changed = TRUE]

\* update_cgrp sending every planned operation in a call of its own
update_cgrpOneByOne(c, cg_name, cg_patch_payload) ==
    LET w == patch_consistency_group(c.cgs, c.vvols, cg_name, cg_patch_payload)
        called == [c EXCEPT !.calls = @ \o [i \in 1..Len(cg_patch_payload) |->
                                               Call("patch", cg_name, <<cg_patch_payload[i]>>)]]
    IN  IF ~w.ok
        THEN fail_json(called, "remote", "Could not update the consistency group")
        ELSE [called EXCEPT !.cgs = w.cgs, !.vvols = w.vvols,
                            !.details = CgRecord(w.cgs, w.vvols, w.name),
                            !.changed = TRUE]

\* ConsistencyGroup.update_cgrp
update_cgrp(c, cg_name, cg_patch_payload) ==
    LET called == [c EXCEPT !.calls = Append(@, Call("patch", cg_name, cg_patch_payload))]
        w == patch_consistency_group(c.cgs, c.vvols, cg_name, cg_patch_payload)
    IN  IF ~w.ok
        THEN fail_json(called, "remote", "Could not update the consistency group")
        ELSE [called EXCEPT !.cgs = w.cgs, !.vvols = w.vvols,
                            !.details = CgRecord(w.cgs, w.vvols, w.name),
                            !.changed = TRUE]

\* ConsistencyGroup.is_vir_vol_inuse: (visibility, used_cg_name) of a volume
is_vir_vol_inuse(c, vir_vol_name) ==
    IF vir_vol_name \in DOMAIN c.vvols /\ c.vvols[vir_vol_name].exists
    THEN [found |-> TRUE,
          visibility |-> c.vvols[vir_vol_name].visibility,
          used_cg_name |-> c.vvols[vir_vol_name].consistency_group]
    ELSE [found |-> FALSE, visibility |-> None, used_cg_name |-> None]

\* CgPlanMember planning an add for every requested volume of a
\* present-in-cg request, whatever group the volume is in
CgPlanMemberAlwaysAdd(c, req, v_vol, used_cg_name) ==
    LET value == get_v_vol_uri(Cluster, v_vol)
    IN  IF req.virtual_volume_state = "present-in-cg"
        THEN [c EXCEPT !.patch = Append(@, get_cgrp_patch_payload("add", "/virtual_volumes", value))]
        ELSE c

\* perform_module_operation, lines 508-522: the operation planned for one
\* requested volume, given who uses it
CgPlanMember(c, req, v_vol, used_cg_name) ==
    LET value == get_v_vol_uri(Cluster, v_vol)
        c1 == IF used_cg_name = None /\ req.virtual_volume_state = "present-in-cg"
              THEN [c EXCEPT !.patch = Append(@, get_cgrp_patch_payload("add", "/virtual_volumes", value))]
              ELSE c
    IN  IF used_cg_name = req.cg_name /\ req.virtual_volume_state = "absent-in-cg"
        THEN [c1 EXCEPT !.patch = Append(@, get_cgrp_patch_payload("remove", "/virtual_volumes", value))]
        ELSE c1

\* CgCheckMember without the test of the visibility
CgCheckMemberAnyVisibility(c, req, v_vol) ==
    LET use == is_vir_vol_inuse(c, v_vol)
    IN  IF ~use.found THEN
            fail_json(c, "remote", "Could not get virtual volume")
        ELSE IF use.used_cg_name \notin {req.cg_name, None} THEN
            fail_json(c, "precondition", "Virtual volume is used by another Consistency group")
        ELSE CgPlanMember(c, req, v_vol, use.used_cg_name)

\* perform_module_operation, lines 492-506: the checks on one requested volume
CgCheckMember(c, req, v_vol) ==
    LET use == is_vir_vol_inuse(c, v_vol)
    IN  IF ~use.found THEN
            fail_json(c, "remote", "Could not get virtual volume")
        ELSE IF use.used_cg_name \notin {req.cg_name, None} THEN
            fail_json(c, "precondition", "Virtual volume is used by another Consistency group")
        ELSE IF use.visibility # "local" THEN
            fail_json(c, "precondition", "Virtual volume visibility should be local")
        ELSE CgPlanMember(c, req, v_vol, use.used_cg_name)

\* the loop of perform_module_operation over virtual_volumes, from index i
RECURSIVE CgVolumeLoop(_, _, _)
CgVolumeLoop(c, req, i) ==
    IF c.status # "run" \/ i > Len(req.virtual_volumes) THEN c
    ELSE CgVolumeLoop(CgCheckMember(c, req, req.virtual_volumes[i]), req, i + 1)

\* perform_module_operation, lines 463-469: validate, fetch, delete
CgStepDelete(c, req) ==
    IF ~validate_name(req.cg_name) THEN fail_json(c, "input", "invalid cg_name")
    ELSE
        LET c1 == [c EXCEPT !.details = get_cgrp(c, req.cg_name)]
        IN  IF req.state = "absent" /\ c1.details # NoCg
            THEN delete_cgrp(c1, req.cg_name)
            ELSE c1

\* perform_module_operation, lines 471-488: create
CgStepCreate(c, req) ==
    IF c.status # "run" THEN c
    ELSE IF req.state = "present" /\ c.details = NoCg THEN
        IF check_name_in_distributed_cg(c, req.cg_name) # None
        THEN fail_json(c, "precondition", "already exists with same name in distributed cg")
        ELSE IF req.new_cg_name # None
        THEN fail_json(c, "precondition", "Could not perform create and rename in a single task")
        ELSE create_cgrp(c, req.cg_name)
    ELSE c

\* perform_module_operation, lines 490-522: plan the membership operations
CgStepVolumes(c, req) ==
    IF c.status # "run" THEN c
    ELSE IF req.state = "present" /\ req.virtual_volumes # <<>>
            /\ req.virtual_volume_state # None
    THEN CgVolumeLoop(c, req, 1)
    ELSE c

\* perform_module_operation, lines 524-554: plan the rename
CgStepRename(c, req) ==
    IF c.status # "run" THEN c
    ELSE IF req.state = "present" /\ req.new_cg_name # None /\ c.details # NoCg THEN
        IF ~validate_name(req.new_cg_name) THEN fail_json(c, "input", "invalid new_cg_name")
        ELSE IF req.new_cg_name = c.details.name THEN c
        ELSE IF get_cgrp(c, req.new_cg_name) # NoCg
        THEN fail_json(c, "precondition", "New Consistency group name already exists")
        ELSE IF check_name_in_distributed_cg(c, req.new_cg_name) # None
        THEN fail_json(c, "precondition", "already exists with same name in distributed_storage")
        ELSE [c EXCEPT !.patch = Append(@, get_cgrp_patch_payload("replace", "/name", req.new_cg_name))]
    ELSE c

\* perform_module_operation, lines 556-563: send the batch and report
CgStepUpdate(c, req) ==
    IF c.status # "run" THEN c
    ELSE
        LET c1 == IF Len(c.patch) > 0 THEN update_cgrp(c, req.cg_name, c.patch) ELSE c
        IN  IF c1.status = "run" THEN [c1 EXCEPT !.status = "ok"] ELSE c1

\* cluster_name of a request; requests that do not name one address Cluster
CgCluster(req) == IF "cluster_name" \in DOMAIN req THEN req.cluster_name ELSE Cluster

\* the context an invocation of the consistency group module starts from:
\* the groups and volumes of the addressed cluster
CgStart ==
    [cgs |-> IF CgCluster(task) = Cluster THEN cgs ELSE remote_cgs,
     dcgs |-> dcgs,
     vvols |-> IF CgCluster(task) = Cluster THEN vvols ELSE [v \in VolNames |-> NoVol],
     calls |-> <<>>,
     status |-> "run", kind |-> None, msg |-> None, changed |-> FALSE,
     details |-> NoCg, patch |-> <<>>]

\* ConsistencyGroup.perform_module_operation
CG_perform_module_operation(req) ==
    CgStepUpdate(CgStepRename(CgStepVolumes(CgStepCreate(CgStepDelete(CgStart, req), req), req), req), req)

\* requests the argument spec admits (virtual_volumes and
\* virtual_volume_state are required together)
CgRequests ==
    {r \in [cg_name : CgNames,
            virtual_volumes : SeqsUpTo(ReqVolNames, MaxVolList),
            virtual_volume_state : {None, "present-in-cg", "absent-in-cg"},
            new_cg_name : CgNames \cup {None},
            state : {"present", "absent"}] :
        r.virtual_volumes = <<>> \/ r.virtual_volume_state # None}

\* one run of the consistency group module
CgInvocation ==
    LET c == CG_perform_module_operation(task)
    IN  /\ cgs' = IF CgCluster(task) = Cluster THEN c.cgs ELSE cgs
        /\ remote_cgs' = IF CgCluster(task) = Cluster THEN remote_cgs ELSE c.cgs
        /\ vvols' = IF CgCluster(task) = Cluster THEN c.vvols ELSE vvols
        /\ last' = Outcome("consistency_group", c,
                           c.cgs # CgStart.cgs \/ c.vvols # CgStart.vvols)
        /\ tick' = 1 - tick
        /\ fe_ports' = fe_ports
        /\ procs' = procs
        /\ UNCHANGED <<dcgs, task, migVars, vvVars, initVars, svVars, devVars, distVars>>

\* appliance states the consistency group module can meet
InitCG ==
    /\ cgs \in SUBSET {"cg1", "cg2"}
    /\ dcgs \in {{}, {"cg2"}}
    /\ remote_cgs = {}
    /\ vvols \in [VolNames -> {Vol(g, vis, "unexported", "D0", 1, 0) :
                                 g \in {None, "cg1", "cg2"}, vis \in {"local", "global"}}]
    /\ \A v \in VolNames : vvols[v].consistency_group \in cgs \cup {None}
    /\ task \in CgRequests
    /\ jobs = [m \in MigNames |-> NoJob]
    /\ sobjs = [cl \in Clusters |-> [d \in ObjNames |-> NoObj]]
    /\ NoVvState
    /\ ports = NoPorts
    /\ NoSvState
    /\ NoDevState
    /\ NoDistState
    /\ last = NoOutcome
    /\ tick = 0
    /\ fe_ports = NoFePorts
    /\ procs = NoProcs

NextCG == CgInvocation

SpecCG == InitCG /\ [][NextCG]_vars

----------------------------------------------------------------------------
(* Data migration module *)

\* perform_module_operation, lines 736-745: the operations a job status allows
operations(status) ==
    CASE status = "queued" -> {"cancel", "pause", "transfer size"}
      [] status = "in-progress" -> {"cancel", "pause", "transfer size"}
      [] status = "paused" -> {"resume", "cancel", "transfer size"}
      [] status = "commit pending" -> {"commit", "cancel", "transfer size"}
      [] status = "complete" -> {"commit", "cancel", "transfer size"}
      [] status = "committed" -> {"transfer size"}
      [] status = "partially-committed" -> {"commit"}
      [] status = "error" -> {"cancel"}
      [] status = "cancelled" -> {"transfer size"}
      [] status = "partially-cancelled" -> {"cancel"}

JobStatuses ==
    {"queued", "in-progress", "paused", "commit pending", "complete",
     "committed", "partially-committed", "error", "cancelled",
     "partially-cancelled"}

\* perform_module_operation, lines 747-750: the status in which a requested
\* operation is already satisfied
operations_idem(op) ==
    CASE op = "commit" -> "committed"
      [] op = "pause" -> "paused"
      [] op = "resume" -> "in-progress"
      [] op = "cancel" -> "cancelled"

\* the storage URI of a device or extent
storage_uri(storage) == IF storage = "device" THEN "devices" ELSE "extents"
ObjUri(cluster_name, storage, name) == <<cluster_name, storage_uri(storage), name>>

\* validate_transfer_size without the test for multiples of 4096
validate_transfer_sizeAnyMultiple(transfer_size) ==
    ~(transfer_size < 40960) /\ ~(transfer_size > 134217728)

\* VplexDataMigration.validate_transfer_size: TRUE when the size is accepted
validate_transfer_size(transfer_size) ==
    ~(transfer_size < 40960) /\ ~(transfer_size > 134217728)
        /\ ~(transfer_size % 4096 # 0)

\* the list or get call of the fetch is answered with an error status
\* (utils.ApiException)
ApiFails(c) == "api" \in DOMAIN c /\ c.api = "api_error"

\* VplexDataMigration.get_job_details: list the jobs, then get the one
\* named; None when the job is not listed and when a call raises ApiException
get_job_details(c, migration_name) ==
    IF ApiFails(c) THEN NoJob
    ELSE IF migration_name \in DOMAIN c.jobs THEN c.jobs[migration_name] ELSE NoJob

\* VplexDataMigration.get_device / get_extent: the record, or NoObj when the
\* appliance has no such object in that cluster
get_storage_object(c, cluster_name, name) ==
    IF cluster_name \in DOMAIN c.sobjs /\ name \in DOMAIN c.sobjs[cluster_name]
    THEN c.sobjs[cluster_name][name] ELSE NoObj

\* VplexDataMigration.validate_src_target: None, or the reason of the failure
validate_src_target(c, req, cluster_name, target_cluster) ==
    LET tcl == IF req.storage = "extent" THEN cluster_name ELSE target_cluster
        src_details == get_storage_object(c, cluster_name, req.source_name)
        target_details == IF req.storage = "extent"
                          THEN get_storage_object(c, cluster_name, req.target_name)
                          ELSE get_storage_object(c, tcl, req.target_name)
    IN  IF ~src_details.exists THEN "The source is not present"
        ELSE IF ~target_details.exists THEN "The target is not present"
        ELSE IF src_details.capacity > target_details.capacity
        THEN "The source capacity is greater than the target"
        ELSE IF req.storage = "device" THEN
            IF src_details.virtual_volume = None
            THEN "The source device does not contain a virtual volume"
            ELSE IF target_details.virtual_volume # None
            THEN "The target device contains a virtual volume"
            ELSE None
        ELSE
            IF src_details.use # "used"
            THEN "The source extent does not contain a device"
            ELSE IF target_details.use = "used"
            THEN "The target extent is in used state"
            ELSE None

\* DataMigrationApi.create_device_migration / create_extent_migration: the
\* job the appliance creates; it starts paused, queued or in progress
CreatedJob(req, cluster_name, target_cluster, started) ==
    [name |-> req.migration_name,
     status |-> IF req.status = "pause" THEN "paused" ELSE started,
     transfer_size |-> IF req.storage = "extent" /\ req.transfer_size # 0
                       THEN req.transfer_size ELSE 131072,
     source |-> ObjUri(cluster_name, req.storage, req.source_name),
     target |-> ObjUri(target_cluster, req.storage, req.target_name)]

\* VplexDataMigration.create_job
create_job(c, req, cluster_name, target_cluster, started) ==
    LET reason == validate_src_target(c, req, cluster_name, target_cluster)
    IN  IF reason # None THEN fail_json(c, "precondition", reason)
        ELSE
            LET job == CreatedJob(req, cluster_name, target_cluster, started)
                called == [c EXCEPT !.calls = Append(@, Call("create", req.migration_name, <<>>))]
            IN  IF \/ req.migration_name \notin DOMAIN c.jobs
                   \/ c.jobs[req.migration_name] # NoJob
                THEN fail_json(called, "remote", "Could not create migration job")
                ELSE [called EXCEPT !.jobs[req.migration_name] = job,
                                    !.details = job,
                                    !.create_flag = 1,
                                    !.changed = TRUE]

\* ApplyJobOp leaving the status of the job as it is
ApplyJobOpKeepStatus(job, op) ==
    IF op.path = "/transfer_size" THEN [job EXCEPT !.transfer_size = op.value]
    ELSE job

\* one patch operation applied by the appliance to a job
ApplyJobOp(job, op) ==
    IF op.path = "/status" THEN [job EXCEPT !.status = operations_idem(op.value)]
    ELSE IF op.path = "/transfer_size" THEN [job EXCEPT !.transfer_size = op.value]
    ELSE job

RECURSIVE ApplyJobOps(_, _)
ApplyJobOps(job, ops) ==
    IF ops = <<>> THEN job ELSE ApplyJobOps(ApplyJobOp(job, Head(ops)), Tail(ops))

\* VplexDataMigration.update_migration_job
update_migration_job(c, migration_name, data_patch_payload) ==
    LET called == [c EXCEPT !.calls = Append(@, Call("patch", migration_name, data_patch_payload))]
    IN  IF migration_name \notin DOMAIN c.jobs \/ c.jobs[migration_name] = NoJob
        THEN fail_json(called, "remote", "Could not update the migration job")
        ELSE LET job == ApplyJobOps(c.jobs[migration_name], data_patch_payload)
             IN  [called EXCEPT !.jobs[migration_name] = job,
                                !.details = job,
                                !.changed = TRUE]

\* delete_job without the test of the status
delete_jobAnyStatus(c, job_details) ==
    [c EXCEPT !.calls = Append(@, Call("delete", job_details.name, <<>>)),
              !.jobs[job_details.name] = NoJob]

\* VplexDataMigration.delete_job
delete_job(c, job_details) ==
    IF job_details.status \notin {"cancelled", "committed"}
    THEN fail_json(c, "precondition", "The migration must first be cancelled or committed")
    ELSE [c EXCEPT !.calls = Append(@, Call("delete", job_details.name, <<>>)),
                   !.jobs[job_details.name] = NoJob]

\* perform_module_operation, lines 752-757: validate the name, fetch the job,
\* validate the transfer size
MigStepValidate(c, req) ==
    IF ~validate_name(req.migration_name) THEN fail_json(c, "input", "invalid migration job name")
    ELSE
        LET c1 == [c EXCEPT !.details = get_job_details(c, req.migration_name),
                            !.found = get_job_details(c, req.migration_name)]
        IN  IF req.transfer_size # 0
               /\ ~validate_transfer_size(req.transfer_size)
            THEN fail_json(c1, "input", "invalid transfer size")
            ELSE c1

\* perform_module_operation, lines 760-794: create the job, or compare an
\* existing job with the requested source and target
MigStepCreate(c, req, started) ==
    IF c.status # "run" THEN c
    ELSE
        LET cluster_name == req.cluster_name
            target_cluster == IF req.target_cluster = None THEN req.cluster_name
                              ELSE req.target_cluster
            named == req.source_name # None /\ req.target_name # None
                     /\ cluster_name # None
        IN  IF c.details = NoJob /\ req.state = "present" THEN
                IF named THEN create_job(c, req, cluster_name, target_cluster, started)
                ELSE fail_json(c, "precondition", "Could not get the details of the migration job")
            ELSE IF c.details # NoJob /\ req.state = "present" /\ named THEN
                IF c.details.source = ObjUri(cluster_name, req.storage, req.source_name)
                   /\ c.details.target = ObjUri(target_cluster, req.storage, req.target_name)
                THEN c
                ELSE fail_json(c, "precondition", "The job is already present with different source or target")
            ELSE c

\* MigStepStatus planning the status operation without looking it up in the
\* operations the job's status allows
MigStepStatusUnchecked(c, req) ==
    IF c.status # "run" THEN c
    ELSE IF (c.details # NoJob /\ c.create_flag = 1 /\ req.status \notin {"pause", None})
            \/ (c.details # NoJob /\ c.create_flag = 0 /\ req.status # None) THEN
        IF c.details.status = operations_idem(req.status) THEN c
        ELSE [c EXCEPT !.patch = Append(@, [op |-> "replace", path |-> "/status", value |-> req.status])]
    ELSE c

\* perform_module_operation, lines 797-814: plan the status operation
MigStepStatus(c, req) ==
    IF c.status # "run" THEN c
    ELSE IF (c.details # NoJob /\ c.create_flag = 1 /\ req.status \notin {"pause", None})
            \/ (c.details # NoJob /\ c.create_flag = 0 /\ req.status # None) THEN
        IF c.details.status = operations_idem(req.status) THEN c
        ELSE IF req.status \notin operations(c.details.status)
        THEN fail_json(c, "precondition", "Could not update status of the migration job")
        ELSE [c EXCEPT !.patch = Append(@, [op |-> "replace", path |-> "/status", value |-> req.status])]
    ELSE c

\* MigStepTransferSize without the test of the allow-list
MigStepTransferSizeUnchecked(c, req) ==
    IF c.status # "run" THEN c
    ELSE IF c.details # NoJob /\ c.create_flag = 0 /\ req.transfer_size # 0
            /\ req.state = "present" THEN
        IF req.transfer_size = c.details.transfer_size THEN c
        ELSE [c EXCEPT !.patch = Append(@, [op |-> "replace", path |-> "/transfer_size", value |-> req.transfer_size])]
    ELSE c

\* perform_module_operation, lines 816-833: plan the transfer size operation
MigStepTransferSize(c, req) ==
    IF c.status # "run" THEN c
    ELSE IF c.details # NoJob /\ c.create_flag = 0 /\ req.transfer_size # 0
            /\ req.state = "present" THEN
        IF req.transfer_size = c.details.transfer_size THEN c
        ELSE IF "transfer size" \notin operations(c.details.status)
        THEN fail_json(c, "precondition", "Could not update transfer size of migration job")
        ELSE [c EXCEPT !.patch = Append(@, [op |-> "replace", path |-> "/transfer_size", value |-> req.transfer_size])]
    ELSE c

\* MigStepUpdate sending the patch call even when nothing is planned
MigStepUpdateAlways(c, req) ==
    IF c.status # "run" THEN c
    ELSE IF c.details # NoJob THEN update_migration_job(c, req.migration_name, c.patch)
    ELSE c

\* perform_module_operation, lines 835-838: send the batch
MigStepUpdate(c, req) ==
    IF c.status # "run" THEN c
    ELSE IF Len(c.patch) > 0 THEN update_migration_job(c, req.migration_name, c.patch)
    ELSE c

\* MigStepDelete treating a missing job as an error
MigStepDeleteStrict(c, req) ==
    IF c.status # "run" THEN c
    ELSE IF c.details = NoJob /\ req.state = "absent"
    THEN fail_json(c, "precondition", "Could not get the details of the migration job")
    ELSE IF c.details # NoJob /\ req.state = "absent" THEN
        LET c1 == delete_job(c, c.details)
        IN  IF c1.status # "run" THEN c1
            ELSE [c1 EXCEPT !.status = "ok", !.changed = TRUE, !.details = NoJob]
    ELSE [c EXCEPT !.status = "ok"]

\* perform_module_operation, lines 840-854: delete the job, and report
MigStepDelete(c, req) ==
    IF c.status # "run" THEN c
    ELSE IF c.details = NoJob /\ req.state = "absent"
    THEN [c EXCEPT !.status = "ok", !.changed = FALSE, !.details = NoJob]
    ELSE IF c.details # NoJob /\ req.state = "absent" THEN
        LET c1 == delete_job(c, c.details)
        IN  IF c1.status # "run" THEN c1
            ELSE [c1 EXCEPT !.status = "ok", !.changed = TRUE, !.details = NoJob]
    ELSE [c EXCEPT !.status = "ok"]

\* the context an invocation of the data migration module starts from
MigStart ==
    [jobs |-> jobs, sobjs |-> sobjs, calls |-> <<>>,
     status |-> "run", kind |-> None, msg |-> None, changed |-> FALSE,
     details |-> NoJob, found |-> NoJob, patch |-> <<>>, create_flag |-> 0]

\* VplexDataMigration.perform_module_operation; `started` is the status the
\* appliance gives a job it creates unpaused
Mig_perform_from(c0, req, started) ==
    MigStepDelete(MigStepUpdate(MigStepTransferSize(MigStepStatus(
        MigStepCreate(MigStepValidate(c0, req), req, started), req), req), req), req)

\* an invocation whose calls the appliance answers without fault
Mig_perform_module_operation(req, started) == Mig_perform_from(MigStart, req, started)

\* transfer sizes used in requests: 0 stands for a transfer_size that is
\* None or 0 (the module tests it only by truth value), then the default,
\* the smallest valid one, and one that is no multiple of 4096
TransferSizes == {0, 131072, 40960, 40961}

\* requests the argument spec admits
MigRequests ==
    {r \in [migration_name : MigNames \cup {"9m"},
            source_name : ObjNames \cup {None},
            target_name : ObjNames \cup {None},
            transfer_size : TransferSizes,
            status : {None, "pause", "resume", "cancel", "commit"},
            cluster_name : {None, "cluster-1"},
            target_cluster : {None, "cluster-2"},
            storage : {"device", "extent"},
            state : {"present", "absent"}] :
        /\ (r.source_name = None) = (r.target_name = None)
        /\ r.source_name # None => r.source_name # r.target_name}

\* one run of the data migration module
MigInvocation ==
    \E started \in {"queued", "in-progress"} :
        LET c == Mig_perform_module_operation(task, started)
        IN  /\ jobs' = c.jobs
            /\ last' = Outcome("data_migration", c, c.jobs # jobs)
            /\ tick' = 1 - tick
            /\ fe_ports' = fe_ports
            /\ procs' = procs
            /\ UNCHANGED <<sobjs, task, cgVars, vvols, vvVars, initVars, svVars, devVars, distVars>>

\* appliance states the data migration module can meet: the job is absent
\* or in any status; d1 and d2 are in cluster-1, d2 is also in cluster-2
InitMig ==
    /\ task \in MigRequests
    /\ jobs \in [MigNames -> {NoJob} \cup
                   {[name |-> "m1", status |-> st, transfer_size |-> 131072,
                     source |-> ObjUri("cluster-1", task.storage, "d1"),
                     target |-> ObjUri(tc, task.storage, "d2")] :
                      st \in JobStatuses, tc \in Clusters}]
    /\ \E cap2 \in {1, 2}, use1 \in BOOLEAN, use2 \in BOOLEAN :
         LET Obj(cap, used) ==
                 [exists |-> TRUE, capacity |-> cap,
                  virtual_volume |-> IF task.storage = "device" /\ used THEN "vol" ELSE None,
                  use |-> IF task.storage = "device" THEN None
                          ELSE IF used THEN "used" ELSE "claimed"]
         IN  sobjs = [cl \in Clusters |->
                        IF cl = "cluster-1"
                        THEN [d \in ObjNames |-> IF d = "d1" THEN Obj(1, use1) ELSE Obj(cap2, use2)]
                        ELSE [d \in ObjNames |-> IF d = "d2" THEN Obj(2, FALSE) ELSE NoObj]]
    /\ cgs = {}
    /\ dcgs = {}
    /\ remote_cgs = {}
    /\ vvols = [v \in VolNames |-> NoVol]
    /\ NoVvState
    /\ ports = NoPorts
    /\ NoSvState
    /\ NoDevState
    /\ NoDistState
    /\ last = NoOutcome
    /\ tick = 0
    /\ fe_ports = NoFePorts
    /\ procs = NoProcs

NextMig == MigInvocation

SpecMig == InitMig /\ [][NextMig]_vars

----------------------------------------------------------------------------
(* The appliance: virtual volumes and the devices under them *)

\* a child of a device in the appliance's map: an extent, a device, or the
\* device the appliance makes of the former content when it concatenates
\* (its name is the parent's name followed by a date)
ExtentChild(name) == [name |-> name, kind |-> "extent", dated |-> FALSE]
DeviceChild(name) == [name |-> name, kind |-> "device", dated |-> FALSE]
DatedChild(parent) == [name |-> parent, kind |-> "device", dated |-> TRUE]

\* names of the children, in order
ChildNames(children) == [i \in 1..Len(children) |-> children[i].name]

\* an appliance that concatenates the device and reports the old capacity
ExpandWithDeviceNoGrowth(w, vol_name, dev) ==
    LET sup == w.vvols[vol_name].supporting_device
        old == w.devices[sup].children
        hasDated == \E i \in 1..Len(old) : old[i].dated
    IN  IF dev \in DOMAIN w.devices /\ w.devices[dev].exists
           /\ w.devices[dev].virtual_volume = None /\ w.devices[dev].top_level
        THEN [w EXCEPT !.devices[dev].top_level = FALSE,
                       !.devices[sup].children =
                           IF hasDated THEN Append(old, DeviceChild(dev))
                           ELSE <<DatedChild(sup), DeviceChild(dev)>>]
        ELSE [w EXCEPT !.ok = FALSE]

\* VirtualVolumeApi.expand_virtual_volume with spare_storage: the appliance
\* concatenates device dev to the volume's supporting device
ExpandWithDevice(w, vol_name, dev) ==
    LET sup == w.vvols[vol_name].supporting_device
        old == w.devices[sup].children
        hasDated == \E i \in 1..Len(old) : old[i].dated
    IN  IF dev \in DOMAIN w.devices /\ w.devices[dev].exists
           /\ w.devices[dev].virtual_volume = None /\ w.devices[dev].top_level
        THEN [w EXCEPT !.vvols[vol_name].capacity = @ + w.devices[dev].capacity,
                       !.devices[dev].top_level = FALSE,
                       !.devices[sup].children =
                           IF hasDated THEN Append(old, DeviceChild(dev))
                           ELSE <<DatedChild(sup), DeviceChild(dev)>>]
        ELSE [w EXCEPT !.ok = FALSE]

\* VirtualVolumeApi.expand_virtual_volume without spare_storage: the volume
\* takes the capacity the back-end array has added
ExpandFromArray(w, vol_name) ==
    [w EXCEPT !.vvols[vol_name].capacity = @ + w.vvols[vol_name].expandable_capacity,
              !.vvols[vol_name].expandable_capacity = 0]

\* VirtualVolumeApi.patch_virtual_volume with a /name replace
RenameVolume(w, vol_name, new_name) ==
    IF new_name \in DOMAIN w.vvols /\ ~w.vvols[new_name].exists
       /\ new_name \notin w.dist_vols
    THEN [w EXCEPT !.vvols = [w.vvols EXCEPT ![new_name] = w.vvols[vol_name],
                                             ![vol_name] = NoVol],
                   !.devices[w.vvols[vol_name].supporting_device].virtual_volume = new_name]
    ELSE [w EXCEPT !.ok = FALSE]

----------------------------------------------------------------------------
(* Virtual volume module *)

\* the record standing for "no volume" in the result
NoVolDetails == [name |-> None, capacity |-> 0, visibility |-> None,
                 mirrors |-> <<>>, additional_devs |-> <<>>]

\* VirtualVolumeModule.get_volume_by_name: the name when the cluster has a
\* local volume of that name, else None
get_volume_by_name(c, vol_name) ==
    IF vol_name \in DOMAIN c.vvols /\ c.vvols[vol_name].exists
       /\ c.vvols[vol_name].locality = "local"
    THEN vol_name ELSE None

\* VirtualVolumeModule.get_distributed_virtual_volume
get_distributed_virtual_volume(c, vol_name) ==
    IF vol_name \in c.dist_vols THEN vol_name ELSE None

\* Python's `a in b` on the names of the model: "D0" is part of "D0x"
name_in(a, b) == a = b \/ <<a, b>> \in {<<"D0", "D0x">>}

\* VirtualVolumeModule.volume_exists_in_other_clusters
volume_exists_in_other_clusters(c, vol_name) == vol_name \in c.remote_vols

\* VirtualVolumeModule.device_exists_in_other_clusters
device_exists_in_other_clusters(c, dev_name) ==
    \E d \in c.remote_devs : name_in(dev_name, d)

\* perform_module_operation.is_device_rebuilding
is_device_rebuilding(dev) == dev.rebuild_status \in {"rebuilding", "queued"}

\* perform_module_operation.dev_checks: None, or the reason of the failure
dev_checks(c, device_name, chk_vol, chk_top_level, chk_rebuild) ==
    IF device_name \notin DOMAIN c.devices \/ ~c.devices[device_name].exists
    THEN "Could not get device"
    ELSE LET dev == c.devices[device_name]
         IN  IF chk_vol /\ dev.virtual_volume # None
             THEN "Device is already used in a virtual volume"
             ELSE IF chk_top_level /\ ~dev.top_level
             THEN "Device is already in use"
             ELSE IF chk_rebuild /\ is_device_rebuilding(dev)
             THEN "Device rebuilding is in progress"
             ELSE None

\* perform_module_operation.verify_new_volume_name: None, or the reason
verify_new_volume_name(c, name) ==
    IF ~validate_name(name) THEN "invalid volume name"
    ELSE IF get_distributed_virtual_volume(c, name) # None
    THEN "Virtual volume with same name already exists in distributed virtual volume"
    ELSE IF get_volume_by_name(c, name) # None
    THEN "Virtual volume with same name already exists in the cluster"
    ELSE None

\* perform_module_operation, lines 1049-1052: the children of the map that
\* are no extents
device_children(children) == SelectSeq(children, LAMBDA ch : ch.kind # "extent")

\* perform_module_operation.get_volume_type: whether the volume is mirrored
\* or expanded, from the children that are no extents
get_volume_type(children) ==
    IF Len(children) = 0 THEN None
    ELSE IF \E i \in 1..Len(children) : children[i].dated THEN "expanded"
    ELSE "mirrored"

\* get_volume_type pops the dated children: the names that stay, in order
remaining_children(children) ==
    ChildNames(SelectSeq(children, LAMBDA ch : ~ch.dated))

\* the world the appliance calls of the module work on
VvWorld(c) == [ok |-> TRUE, vvols |-> c.vvols, devices |-> c.devices,
               dist_vols |-> c.dist_vols]

\* VirtualVolumeModule.update_volume with the payload of rename()
rename(c, new_vol_name) ==
    LET called == [c EXCEPT !.calls = Append(@, Call("patch", c.vol_name,
                        <<[op |-> "replace", path |-> "/name", value |-> new_vol_name]>>))]
        w == RenameVolume(VvWorld(c), c.vol_name, new_vol_name)
    IN  IF ~w.ok THEN fail_json(called, "remote", "Could not update virtual volume")
        ELSE [called EXCEPT !.vvols = w.vvols, !.devices = w.devices,
                            !.vol_name = new_vol_name]

\* VirtualVolumeModule.delete_volume
delete_volume(c) ==
    LET called == [c EXCEPT !.calls = Append(@, Call("delete", c.vol_name, <<>>))]
        sup == c.vvols[c.vol_name].supporting_device
    IN  [called EXCEPT !.vvols[c.vol_name] = NoVol,
                       !.devices[sup].virtual_volume = None,
                       !.changed = TRUE]

\* the name the appliance gives a volume it creates on a device
CreatedVolName(dev_name) == IF dev_name = "D0" THEN "D0_vol" ELSE "Dx_vol"

\* VirtualVolumeModule.create_volume followed by rename(vol_name)
\* (lines 930-933: the created volume never has the requested name)
create_volume(c, req) ==
    LET dev == req.supporting_device_name
        created == [c EXCEPT !.calls = Append(@, Call("create", CreatedVolName(dev), <<>>))]
        renamed == [created EXCEPT !.calls = Append(@, Call("patch", CreatedVolName(dev),
                        <<[op |-> "replace", path |-> "/name", value |-> req.virtual_volume_name]>>))]
    IN  [renamed EXCEPT
            !.vvols[req.virtual_volume_name] =
                Vol(None, "local", "unexported", dev, c.devices[dev].capacity, 0),
            !.devices[dev].virtual_volume = req.virtual_volume_name,
            !.vol_name = req.virtual_volume_name,
            !.changed = TRUE]

\* VirtualVolumeModule.expand_volume; capacities keeps the capacity of
\* each volume object the call has returned
expand_volume(c, dev) ==
    LET called == [c EXCEPT !.calls = Append(@, Call("expand", c.vol_name, <<dev>>))]
        w == IF dev = None THEN ExpandFromArray(VvWorld(c), c.vol_name)
             ELSE ExpandWithDevice(VvWorld(c), c.vol_name, dev)
    IN  IF ~w.ok THEN fail_json(called, "remote", "Could not expand virtual volume")
        ELSE [called EXCEPT !.vvols = w.vvols, !.devices = w.devices,
                            !.capacities = Append(@, w.vvols[c.vol_name].capacity)]

\* VirtualVolumeModule.update_device with a /visibility replace; the volume
\* is fetched again afterwards (lines 1039-1043)
update_device(c, dev_name, visibility) ==
    [c EXCEPT !.calls = Append(@, Call("patch_device", dev_name,
                  <<[op |-> "replace", path |-> "/visibility", value |-> visibility]>>)),
              !.vvols[c.vol_name].visibility = visibility,
              !.changed = TRUE]

\* VirtualVolumeModule.cache_invalidate
cache_invalidate(c) ==
    [c EXCEPT !.calls = Append(@, Call("cache_invalidate", c.vol_name, <<>>)),
              !.changed = TRUE]

\* perform_module_operation.exit_module
exit_module(c, with_volume) ==
    [c EXCEPT !.status = "ok",
              !.details =
                 IF ~with_volume THEN NoVolDetails
                 ELSE [name |-> c.vol_name,
                       capacity |-> c.vvols[c.vol_name].capacity,
                       visibility |-> c.vvols[c.vol_name].visibility,
                       mirrors |-> IF c.vol_type = "mirrored" THEN c.children ELSE <<>>,
                       additional_devs |-> IF c.vol_type = "expanded" THEN c.children ELSE <<>>]]

\* perform_module_operation, lines 880-908: fetch the volume; state=absent
VvStepDelete(c, req) ==
    LET c1 == [c EXCEPT !.vol_name = get_volume_by_name(c, req.virtual_volume_name)]
    IN  IF req.state = "absent" THEN
            IF c1.vol_name # None THEN
                IF c1.vvols[c1.vol_name].consistency_group # None
                THEN fail_json(c1, "precondition", "virtual volume is a part of Consistency Group")
                ELSE IF c1.vvols[c1.vol_name].service_status # "unexported"
                THEN fail_json(c1, "precondition", "virtual volume is not unexported")
                ELSE exit_module(delete_volume(c1), FALSE)
            ELSE exit_module(c1, FALSE)
        ELSE c1

\* perform_module_operation, lines 911-945: create the volume
VvStepCreate(c, req) ==
    IF c.status # "run" THEN c
    ELSE IF req.state = "present" /\ req.supporting_device_name # None /\ c.vol_name = None THEN
        IF req.new_virtual_volume_name # None
        THEN fail_json(c, "precondition", "Could not perform create and rename in a single task")
        ELSE
            LET bad == verify_new_volume_name(c, req.virtual_volume_name)
                chk == dev_checks(c, req.supporting_device_name, FALSE, TRUE, req.wait_for_rebuild)
            IN  IF bad # None
                THEN fail_json(c, IF validate_name(req.virtual_volume_name) THEN "precondition" ELSE "input", bad)
                ELSE IF chk # None THEN fail_json(c, "precondition", chk)
                ELSE IF c.devices[req.supporting_device_name].virtual_volume = None
                THEN create_volume(c, req)
                ELSE fail_json(c, "precondition", "Device is already attached to a volume")
    ELSE c

\* perform_module_operation, lines 948-982: cache invalidate; then the volume
\* must be there
VvStepCache(c, req) ==
    IF c.status # "run" THEN c
    ELSE
        LET c1 == IF req.state = "present" /\ c.vol_name # None /\ req.cache_invalidate
                     /\ c.vvols[c.vol_name].service_status # "unexported"
                  THEN IF ~c.directors_ok
                       THEN fail_json(c, "precondition", "directors communication status must be ok")
                       ELSE IF c.vplex_version > 6
                       THEN fail_json(c, "precondition", "cache invalidate needs VPLEX 6.2 or lesser")
                       ELSE cache_invalidate(c)
                  ELSE c
        IN  IF c1.status # "run" THEN c1
            ELSE IF c1.vol_name = None
            THEN fail_json(c1, "precondition", "Could not get volume details")
            ELSE c1

\* perform_module_operation, lines 985-997: rename
VvStepRename(c, req) ==
    IF c.status # "run" THEN c
    ELSE IF req.new_virtual_volume_name # None THEN
        IF req.new_virtual_volume_name = c.vol_name THEN c
        ELSE LET bad == verify_new_volume_name(c, req.new_virtual_volume_name)
             IN  IF bad # None
                 THEN fail_json(c, IF validate_name(req.new_virtual_volume_name) THEN "precondition" ELSE "input", bad)
                 ELSE LET c1 == rename(c, req.new_virtual_volume_name)
                      IN  IF c1.status # "run" THEN c1 ELSE [c1 EXCEPT !.changed = TRUE]
    ELSE c

\* perform_module_operation, lines 1002-1043: enable or disable remote access
VvStepRemoteAccess(c, req) ==
    IF c.status # "run" THEN c
    ELSE
        LET vis == c.vvols[c.vol_name].visibility
            vol_dev_name == c.vvols[c.vol_name].supporting_device
            payload == IF vis = "local" /\ req.remote_access = "enable" THEN "global"
                       ELSE IF vis = "global" /\ req.remote_access = "disable" THEN "local"
                       ELSE None
        IN  IF req.remote_access # None /\ payload # None THEN
                IF volume_exists_in_other_clusters(c, c.vol_name)
                THEN fail_json(c, "precondition", "virtual volume with same name exists in another cluster")
                ELSE IF device_exists_in_other_clusters(c, vol_dev_name)
                THEN fail_json(c, "precondition", "device with same name exists in another cluster")
                ELSE update_device(c, vol_dev_name, payload)
            ELSE c

\* perform_module_operation, lines 1047-1053: read the map of the supporting
\* device
VvStepMap(c, req) ==
    IF c.status # "run" THEN c
    ELSE LET children == device_children(c.devices[c.vvols[c.vol_name].supporting_device].children)
         IN  [c EXCEPT !.vol_type = get_volume_type(children),
                       !.children = IF Len(children) = 0 THEN <<>>
                                    ELSE remaining_children(children),
                       !.found = IF Len(children) = 0 THEN <<>>
                                 ELSE remaining_children(children)]

\* perform_module_operation, lines 1081-1085: TRUE when the existing children
\* agree with the requested list at every shared position
prefix_matches(children, additional_devs) ==
    \A i \in 1..Len(children) :
        i <= Len(additional_devs) => children[i] = additional_devs[i]

\* new_devices taking the whole requested list
new_devicesWholeList(children, additional_devs) ==
    additional_devs

\* perform_module_operation, line 1093: the devices still to add
new_devices(children, additional_devs) ==
    SubSeq(additional_devs, Len(children) + 1, Len(additional_devs))

\* perform_module_operation, lines 1096-1097: the first failing check on the
\* devices to add, or None
RECURSIVE check_new_devices(_, _, _)
check_new_devices(c, devs, i) ==
    IF i > Len(devs) THEN None
    ELSE LET chk == dev_checks(c, devs[i], TRUE, TRUE, FALSE)
         IN  IF chk # None THEN chk ELSE check_new_devices(c, devs, i + 1)

\* perform_module_operation, lines 1102-1110: one expand call per device
RECURSIVE expand_each(_, _, _)
expand_each(c, devs, i) ==
    IF c.status # "run" \/ i > Len(devs) THEN c
    ELSE expand_each(expand_volume(c, devs[i]), devs, i + 1)

\* perform_module_operation, lines 1111-1115 and 1126-1130: changed is set
\* when the capacity has grown
capacity_changed(c, capacity) ==
    IF c.status = "run" /\ capacity < c.vvols[c.vol_name].capacity
    THEN [c EXCEPT !.changed = TRUE] ELSE c

\* perform_module_operation, lines 1056-1132: expand, and report
VvStepExpand(c, req) ==
    IF c.status # "run" THEN c
    ELSE
        LET additional_devs == req.additional_devices
            capacity == c.vvols[c.vol_name].capacity
        IN  IF c.vplex_version > 6 /\ Len(additional_devs) > 0
            THEN fail_json(c, "precondition", "expand with additional devices needs VPLEX 6.2 or lesser")
            ELSE IF Len(additional_devs) > 0 /\ ~req.expand
            THEN fail_json(c, "input", "expand parameter should be set true to expand")
            ELSE IF Len(additional_devs) > 0 /\ req.expand THEN
                IF c.vol_type = "mirrored"
                THEN fail_json(c, "precondition", "volume is mirrored already, can not be expanded")
                ELSE IF Len(c.children) <= Len(additional_devs) THEN
                    IF ~prefix_matches(c.children, additional_devs)
                    THEN fail_json(c, "precondition", "additional_devices must has all the devices in an ordered list")
                    ELSE IF Len(c.children) = Len(additional_devs)
                    THEN exit_module(c, TRUE)
                    ELSE
                        LET devs == new_devices(c.children, additional_devs)
                            chk == check_new_devices(c, devs, 1)
                        IN  IF chk # None THEN fail_json(c, "precondition", chk)
                            ELSE LET c0 == [c EXCEPT !.capacities = <<capacity>>]
                                     c1 == capacity_changed(expand_each(c0, devs, 1), capacity)
                                 IN  IF c1.status # "run" THEN c1 ELSE exit_module(c1, TRUE)
                ELSE fail_json(c, "precondition", "additional_devices must has all the devices in an ordered list")
            ELSE IF c.vvols[c.vol_name].expandable_capacity > 0 /\ req.expand THEN
                LET c1 == capacity_changed(expand_volume(c, None), capacity)
                IN  IF c1.status # "run" THEN c1 ELSE exit_module(c1, TRUE)
            ELSE exit_module(c, TRUE)

\* the context an invocation of the virtual volume module starts from
VvStart ==
    [vvols |-> vvols, devices |-> devices, dist_vols |-> dist_vols,
     remote_vols |-> remote_vols, remote_devs |-> remote_devs,
     vplex_version |-> vplex_version, directors_ok |-> directors_ok,
     calls |-> <<>>, status |-> "run", kind |-> None, msg |-> None,
     changed |-> FALSE, details |-> NoVolDetails, vol_name |-> None,
     children |-> <<>>, found |-> <<>>, vol_type |-> None, capacities |-> <<>>]

\* VirtualVolumeModule.perform_module_operation
VV_perform_module_operation(req) ==
    VvStepExpand(VvStepMap(VvStepRemoteAccess(VvStepRename(VvStepCache(
        VvStepCreate(VvStepDelete(VvStart, req), req), req), req), req), req), req)

\* one run of the virtual volume module
VvInvocation ==
    LET c == VV_perform_module_operation(task)
    IN  /\ vvols' = c.vvols
        /\ devices' = c.devices
        /\ last' = Outcome("virtual_volume", c, c.vvols # vvols \/ c.devices # devices)
        /\ tick' = 1 - tick
        /\ fe_ports' = fe_ports
        /\ procs' = procs
        /\ UNCHANGED <<dist_vols, remote_vols, remote_devs, vplex_version,
                       directors_ok, task, cgVars, migVars, initVars,
                       svVars, devVars, distVars>>

\* longest additional_devices list of a request
MaxDevList == 3

\* a device of the cluster
Dev(vol, top, rebuild, children) ==
    [exists |-> TRUE, virtual_volume |-> vol, top_level |-> top,
     rebuild_status |-> rebuild, capacity |-> 1, children |-> children]

\* the children a supporting device can have: never expanded, expanded by
\* D1, expanded by D1 and D2, or a mirror of D1 and D2
Chains ==
    { <<ExtentChild("x0")>>,
      <<DatedChild("D0"), DeviceChild("D1")>>,
      <<DatedChild("D0"), DeviceChild("D1"), DeviceChild("D2")>>,
      <<DeviceChild("D1"), DeviceChild("D2")>> }

\* the devices among the children
InChain(chain) == {chain[i].name : i \in 1..Len(chain)} \cap DevNames

\* requests of the virtual volume module (the volume is named, never given
\* by id; thin_enable only goes into the create payload)
VvRequest(st, new, sup, wait, exp, ra, add, ci, name) ==
    [state |-> st, virtual_volume_name |-> name, new_virtual_volume_name |-> new,
     supporting_device_name |-> sup, wait_for_rebuild |-> wait, expand |-> exp,
     remote_access |-> ra, additional_devices |-> add, cache_invalidate |-> ci]

\* requests that rename, change remote access and expand a volume
VvExpandRequests ==
    {VvRequest("present", new, None, TRUE, exp, ra, add, FALSE, "v1") :
        new \in {None, "v1", "v2"}, exp \in BOOLEAN,
        ra \in {None, "enable", "disable"},
        add \in SeqsUpTo({"D1", "D2", "D3"}, MaxDevList)}

\* requests that create, delete and cache-invalidate a volume
VvLifecycleRequests ==
    {VvRequest(st, new, sup, wait, exp, None, <<>>, ci, name) :
        st \in {"present", "absent"}, new \in {None, "v2"}, sup \in {None, "D0"},
        wait \in BOOLEAN, exp \in BOOLEAN, ci \in BOOLEAN, name \in {"v1", "9v"}}

\* appliance states for VvExpandRequests: volume v1 on device D0
InitVVExpand ==
    /\ task \in VvExpandRequests
    /\ \E chain \in Chains, d3 \in {"free", "used", "nested"},
          vis \in {"local", "global"}, expcap \in {0, 1} :
         /\ vvols = [v \in VolNames |->
                IF v = "v1"
                THEN Vol(None, vis, "unexported", "D0", 1 + Cardinality(InChain(chain)), expcap)
                ELSE IF d3 = "used" THEN Vol(None, "local", "unexported", "D3", 1, 0)
                ELSE NoVol]
         /\ devices = [d \in DevNames |->
                IF d = "D0" THEN Dev("v1", TRUE, "done", chain)
                ELSE IF d = "D3"
                THEN Dev(IF d3 = "used" THEN "v2" ELSE None, d3 # "nested", "done", <<ExtentChild("x3")>>)
                ELSE Dev(None, d \notin InChain(chain), "done", <<ExtentChild("x")>>)]
    /\ vplex_version \in {6, 7}
    /\ remote_vols \in {{}, {"v1"}}
    /\ remote_devs = {}
    /\ dist_vols = {}
    /\ directors_ok = TRUE

\* appliance states for VvLifecycleRequests: v1 may exist on D0
InitVVLifecycle ==
    /\ task \in VvLifecycleRequests
    /\ \E there \in BOOLEAN, cg \in {None, "cg1"}, svc \in {"unexported", "running"},
          top \in BOOLEAN, rebuild \in {"done", "rebuilding"}, expcap \in {0, 1} :
         /\ vvols = [v \in VolNames |->
                IF v = "v1" /\ there THEN Vol(cg, "local", svc, "D0", 1, expcap) ELSE NoVol]
         /\ devices = [d \in DevNames |->
                IF d = "D0"
                THEN Dev(IF there THEN "v1" ELSE None, there \/ top, rebuild, <<ExtentChild("x0")>>)
                ELSE NoDev]
    /\ vplex_version \in {6, 7}
    /\ directors_ok \in BOOLEAN
    /\ dist_vols \in {{}, {"v1"}, {"v2"}}
    /\ remote_vols = {}
    /\ remote_devs \in {{}, {"D0x"}}

InitVV ==
    /\ InitVVExpand \/ InitVVLifecycle
    /\ cgs = {"cg1"}
    /\ dcgs = {}
    /\ remote_cgs = {}
    /\ jobs = [m \in MigNames |-> NoJob]
    /\ sobjs = [cl \in Clusters |-> [d \in ObjNames |-> NoObj]]
    /\ ports = NoPorts
    /\ NoSvState
    /\ NoDevState
    /\ NoDistState
    /\ last = NoOutcome
    /\ tick = 0
    /\ fe_ports = NoFePorts
    /\ procs = NoProcs

NextVV == VvInvocation

SpecVV == InitVV /\ [][NextVV]_vars

----------------------------------------------------------------------------
(* Initiator module *)

\* the initiator ports the cluster sees, by address, in the order the
\* appliance lists them
PortIds == <<"w1", "q1">>

\* names a registered initiator can have; requests also use the invalid "9i"
InitNames == {"ini1", "ini2"}

\* the record standing for "no initiator" (Python None)
NoPort == [name |-> None, type |-> None, port_wwn |-> None, iscsi_name |-> None]

\* the name the appliance gives an unregistered port
UnregName(id) == IF id = "w1" THEN "UNREGISTERED-w1" ELSE "UNREGISTERED-q1"

\* an unregistered port and a registered one
UnregPort(id) ==
    [name |-> UnregName(id), type |-> None,
     port_wwn |-> IF id = "w1" THEN id ELSE None,
     iscsi_name |-> IF id = "q1" THEN id ELSE None]
RegPort(id, name, type) == [UnregPort(id) EXCEPT !.name = name, !.type = type]

\* VplexInitiator.get_initiator
get_initiator(c, initiator_name) ==
    IF \E i \in 1..Len(PortIds) : c.ports[PortIds[i]].name = initiator_name
    THEN c.ports[PortIds[CHOOSE i \in 1..Len(PortIds) : c.ports[PortIds[i]].name = initiator_name]]
    ELSE NoPort

\* VplexInitiator.rediscover_initiator: the call returns every port
rediscover_initiator(c, timeout) ==
    [c EXCEPT !.calls = Append(@, Call("rediscover", Cluster, <<timeout>>))]

\* VplexInitiator.check_initiator_flag
check_initiator_flag(req) ==
    LET given(x) == x # None
        unreg == req.registered = "false"
    IN  [flag |-> ~given(req.initiator_name) /\ ~given(req.port_wwn)
                  /\ ~given(req.iscsi_name) /\ ~given(req.new_initiator_name),
         reg_flag |-> given(req.initiator_name) /\ req.registered = "true"
                      /\ (given(req.port_wwn) \/ given(req.iscsi_name)),
         rename_flag |-> given(req.new_initiator_name)
                         /\ (given(req.initiator_name) \/ given(req.port_wwn)
                             \/ given(req.iscsi_name)),
         unreg_flag |-> unreg /\ (given(req.initiator_name) \/ given(req.port_wwn)
                                  \/ given(req.iscsi_name))]

\* the values parse_data keeps of a port (serialization drops the None ones)
parse_data(port) == {port.name, port.type, port.port_wwn, port.iscsi_name} \ {None}

\* VplexInitiator.check_name: the index of the first port one of whose
\* values is the name, or 0
check_name(c, name) ==
    LET hits == {i \in 1..Len(PortIds) : name \in parse_data(c.ports[PortIds[i]])}
    IN  IF hits = {} THEN 0 ELSE CHOOSE i \in hits : \A j \in hits : i <= j

\* check_name's side effect: temp_initiator, when it found the name
set_temp_initiator(c, name) ==
    IF check_name(c, name) = 0 THEN c
    ELSE [c EXCEPT !.temp_initiator = c.ports[PortIds[check_name(c, name)]].name]

\* the port of the appliance with the given name, as an address, or None
PortOf(c, name) ==
    IF get_initiator(c, name) = NoPort THEN None
    ELSE PortIds[CHOOSE i \in 1..Len(PortIds) : c.ports[PortIds[i]].name = name]

\* VplexInitiator.register_initiator
register_initiator(c, req) ==
    LET id == IF req.port_wwn # None THEN req.port_wwn ELSE req.iscsi_name
        called == [c EXCEPT !.calls = Append(@, Call("register", req.initiator_name, <<id>>))]
    IN  [called EXCEPT !.ports[id] = RegPort(id, req.initiator_name, req.host_type),
                       !.initiator_details = RegPort(id, req.initiator_name, req.host_type),
                       !.init_details = RegPort(id, req.initiator_name, req.host_type),
                       !.temp_details = RegPort(id, req.initiator_name, req.host_type),
                       !.temp_initiator = req.initiator_name,
                       !.changed = TRUE]

\* VplexInitiator.rename_initiator
rename_initiator(c, initiator_name, new_initiator_name) ==
    LET called == [c EXCEPT !.calls = Append(@, Call("patch", initiator_name,
                       <<[op |-> "replace", path |-> "/name", value |-> new_initiator_name]>>))]
        id == PortOf(c, initiator_name)
    IN  IF id = None THEN fail_json(called, "remote", "Could not rename initiator")
        ELSE [called EXCEPT !.ports[id].name = new_initiator_name,
                            !.initiator_details = [c.ports[id] EXCEPT !.name = new_initiator_name],
                            !.init_details = [c.ports[id] EXCEPT !.name = new_initiator_name],
                            !.changed = TRUE]

\* VplexInitiator.unregister_initiator
unregister_initiator(c, initiator_name) ==
    LET called == [c EXCEPT !.calls = Append(@, Call("unregister", initiator_name, <<>>))]
        id == PortOf(c, initiator_name)
    IN  IF id = None THEN fail_json(called, "remote", "Could not unregister initiator")
        ELSE [called EXCEPT !.ports[id] = UnregPort(id),
                            !.initiator_details = NoPort,
                            !.changed = TRUE]

\* perform_module_operation.exit_module
init_exit_module(c, initiator_details) ==
    [c EXCEPT !.status = "ok", !.details = initiator_details \ {NoPort}]

\* every port, as rediscover returns them
AllPorts(c) == {c.ports[PortIds[i]] : i \in 1..Len(PortIds)}
\* perform_module_operation, lines 520-535: the timeout, the rediscover call
\* of every invocation, and the request that names no initiator
InitStepRediscover(c, req) ==
    IF ~(0 < req.rediscover_timeout /\ req.rediscover_timeout < 3601)
    THEN fail_json(c, "input", "Invalid timeout value")
    ELSE LET c1 == rediscover_initiator(c, req.rediscover_timeout)
         IN  IF check_initiator_flag(req).flag /\ req.registered = None
             THEN init_exit_module([c1 EXCEPT !.changed = TRUE], AllPorts(c1))
             ELSE c1

\* perform_module_operation, lines 554-575: the port_wwn or iscsi_name must
\* be one the cluster sees, unless the request registers
InitCheckAddress(c, req, address) ==
    IF c.status # "run" \/ address = None \/ check_initiator_flag(req).reg_flag THEN c
    ELSE IF check_name(c, address) = 0 THEN
        IF req.state = "present"
        THEN fail_json(c, "precondition", "Could not match port_wwn or iscsi_name")
        ELSE init_exit_module(c, {c.initiator_details})
    ELSE set_temp_initiator(c, address)

\* perform_module_operation, lines 542-575
InitStepValidate(c, req) ==
    IF c.status # "run" THEN c
    ELSE IF req.initiator_name # None /\ ~validate_name36(req.initiator_name)
    THEN fail_json(c, "input", "invalid initiator_name")
    ELSE IF check_initiator_flag(req).flag
    THEN fail_json(c, "input", "Could not find initiator_name, port_wwn/iscsi_name in user parameters")
    ELSE InitCheckAddress(InitCheckAddress(c, req, req.port_wwn), req, req.iscsi_name)

\* perform_module_operation, lines 577-593
InitStepFetch(c, req) ==
    IF c.status # "run" THEN c
    ELSE
        LET c1 == IF c.init_name # None
                  THEN [c EXCEPT !.init_details = get_initiator(c, c.init_name)] ELSE c
        IN  IF c1.init_name # None /\ c1.init_details = NoPort
               /\ ~check_initiator_flag(req).reg_flag
            THEN IF req.state = "present"
                 THEN fail_json(c1, "precondition", "Could not find initiator_name")
                 ELSE init_exit_module(c1, {c1.init_details})
            ELSE IF c1.temp_initiator # None
            THEN [c1 EXCEPT !.temp_details = get_initiator(c1, c1.temp_initiator)]
            ELSE c1

\* perform_module_operation, lines 596-676: register
InitStepRegister(c, req) ==
    IF c.status # "run" \/ ~check_initiator_flag(req).reg_flag THEN c
    ELSE IF check_initiator_flag(req).rename_flag
    THEN fail_json(c, "precondition", "Could not perform register and rename in a single task")
    ELSE IF c.init_details # NoPort /\ c.init_details.type # None
            /\ req.port_wwn # None /\ c.init_details.port_wwn # req.port_wwn
    THEN fail_json(c, "precondition", "already registered with different port_wwn")
    ELSE IF c.init_details # NoPort /\ c.init_details.type # None
            /\ req.port_wwn = None /\ req.iscsi_name # None
            /\ c.init_details.iscsi_name # req.iscsi_name
    THEN fail_json(c, "precondition", "already registered with different iscsi_name")
    ELSE IF c.init_details # NoPort /\ c.init_details.type = None
    THEN fail_json(c, "precondition", "initiator_name is already in use")
    ELSE
        LET address == IF check_name(c, req.port_wwn) # 0 THEN req.port_wwn
                       ELSE IF check_name(c, req.iscsi_name) # 0 THEN req.iscsi_name
                       ELSE None
            c1 == IF address = None THEN c
                  ELSE LET c0 == set_temp_initiator(c, address)
                       IN  [c0 EXCEPT !.temp_details = get_initiator(c0, c0.temp_initiator)]
            temp_details == c1.temp_details
        IN  IF temp_details # NoPort /\ temp_details.type # None THEN
                IF req.host_type # temp_details.type
                THEN fail_json(c1, "precondition", "already registered with different host_type")
                ELSE IF temp_details.name # c1.init_name
                THEN fail_json(c1, "precondition", "already registered with different name")
                ELSE [c1 EXCEPT !.initiator_details = temp_details]
            ELSE register_initiator(c1, req)

\* perform_module_operation, lines 679-708: rename
InitStepRename(c, req) ==
    IF c.status # "run" \/ ~check_initiator_flag(req).rename_flag THEN c
    ELSE
        LET c1 == IF req.port_wwn # None \/ req.iscsi_name # None
                  THEN [c EXCEPT !.init_name = c.temp_initiator,
                                 !.init_details = c.temp_details]
                  ELSE c
        IN  IF c1.init_name = req.new_initiator_name
            THEN [c1 EXCEPT !.initiator_details = c1.init_details]
            ELSE IF get_initiator(c1, req.new_initiator_name) # NoPort
            THEN fail_json(c1, "precondition", "new_initiator_name is already present")
            ELSE IF ~validate_name36(req.new_initiator_name)
            THEN fail_json(c1, "input", "invalid new_initiator_name")
            ELSE rename_initiator(c1, c1.init_name, req.new_initiator_name)

\* perform_module_operation, lines 711-731: unregister
InitStepUnregister(c, req) ==
    IF c.status # "run" \/ ~check_initiator_flag(req).unreg_flag THEN c
    ELSE IF c.init_name # None THEN
        IF c.init_details.type = None
        THEN init_exit_module(c, {c.initiator_details})
        ELSE unregister_initiator([c EXCEPT !.temp_initiator = c.init_name], c.init_name)
    ELSE IF c.temp_details.type = None
    THEN init_exit_module(c, {c.initiator_details})
    ELSE unregister_initiator(c, c.temp_initiator)

\* perform_module_operation, lines 734-741: plain get, and the result
InitStepGet(c, req) ==
    IF c.status # "run" THEN c
    ELSE
        LET f == check_initiator_flag(req)
            c1 == IF ~f.reg_flag /\ ~f.unreg_flag /\ ~f.rename_flag
                  THEN LET c0 == IF req.port_wwn # None
                                    \/ (req.iscsi_name # None /\ c.init_name = None)
                                 THEN [c EXCEPT !.init_details = c.temp_details] ELSE c
                       IN  [c0 EXCEPT !.initiator_details = c0.init_details]
                  ELSE c
        IN  init_exit_module(c1, {c1.initiator_details})

\* the context an invocation of the initiator module starts from
InitStart(req) ==
    [ports |-> ports, calls |-> <<>>, status |-> "run", kind |-> None,
     msg |-> None, changed |-> FALSE, details |-> {},
     init_name |-> req.initiator_name, temp_initiator |-> None,
     init_details |-> NoPort, temp_details |-> NoPort,
     initiator_details |-> NoPort]

\* VplexInitiator.perform_module_operation
Init_perform_module_operation(req) ==
    InitStepGet(InitStepUnregister(InitStepRename(InitStepRegister(InitStepFetch(
        InitStepValidate(InitStepRediscover(InitStart(req), req), req), req), req), req), req), req)

\* requests of the initiator module; port_wwn and iscsi_name are mutually
\* exclusive, and a request that registers names an address the cluster sees
InitRequests ==
    {r \in [initiator_name : InitNames \cup {None, "9i"},
            new_initiator_name : {None, "ini2"},
            port_wwn : {None, "w1", "w9"},
            iscsi_name : {None, "q1"},
            host_type : {"default", "hpux"},
            registered : {None, "true", "false"},
            rediscover_timeout : {0, 1},
            state : {"present", "absent"}] :
        /\ r.port_wwn = None \/ r.iscsi_name = None
        /\ check_initiator_flag(r).reg_flag => r.port_wwn # "w9"}

\* one run of the initiator module
InitInvocation ==
    LET c == Init_perform_module_operation(task)
    IN  /\ ports' = c.ports
        /\ last' = Outcome("initiator", c, c.ports # ports)
        /\ tick' = 1 - tick
        /\ fe_ports' = fe_ports
        /\ procs' = procs
        /\ UNCHANGED <<task, cgVars, vvols, migVars, vvVars, svVars, devVars, distVars>>

\* every port is unregistered or registered under a name of its own
InitInit ==
    /\ task \in InitRequests
    /\ \E p1 \in {UnregPort("w1")} \cup {RegPort("w1", n, t) : n \in InitNames, t \in {"default", "hpux"}},
          p2 \in {UnregPort("q1")} \cup {RegPort("q1", n, t) : n \in InitNames, t \in {"default", "hpux"}} :
         ports = [id \in {"w1", "q1"} |-> IF id = "w1" THEN p1 ELSE p2]
    /\ ports["w1"].name # ports["q1"].name
    /\ NoSvState
    /\ NoDevState
    /\ NoDistState
    /\ cgs = {}
    /\ dcgs = {}
    /\ remote_cgs = {}
    /\ vvols = [v \in VolNames |-> NoVol]
    /\ jobs = [m \in MigNames |-> NoJob]
    /\ sobjs = [cl \in Clusters |-> [d \in ObjNames |-> NoObj]]
    /\ NoVvState
    /\ last = NoOutcome
    /\ tick = 0
    /\ fe_ports = NoFePorts
    /\ procs = NoProcs

NextInit == InitInvocation

SpecInit == InitInit /\ [][NextInit]_vars

----------------------------------------------------------------------------
(* Storage view module *)

\* longest ports, initiators or virtual_volumes list of a storage view request
MaxSvList == 2

\* front-end ports of the cluster; "PX" is a name no port has
SvPorts == {"P1", "P2", "P3"}

\* registered initiators of the cluster; "iU" is an unregistered initiator
SvInits == {"i1", "i2"}

\* virtual volumes of the cluster a view can export; "vX" is a name no volume has
SvVols == {"v1", "v2"}

\* VplexStorageview.get_obj_uri, for one port and for one initiator
SvPortUri(port) == <<Cluster, "exports", "ports", port>>
SvInitUri(initiator) == <<Cluster, "exports", "initiator_ports", initiator>>

\* update_storageview, line 493: the URI of a virtual volume of a cluster
SvVolUri(key, vol) == <<key, "virtual_volumes", vol>>

\* the record standing for "no storage view" (Python None)
NoSvDetails == [name |-> None, ports |-> {}, initiators |-> {}, virtual_volumes |-> {}]

\* ExportsApi.get_storage_view, serialized
SvRecord(vws, name) ==
    IF name \in DOMAIN vws /\ vws[name].exists
    THEN [name |-> name,
          ports |-> {SvPortUri(p) : p \in vws[name].ports},
          initiators |-> {SvInitUri(i) : i \in vws[name].initiators},
          virtual_volumes |-> {SvVolUri(Cluster, v) : v \in vws[name].virtual_volumes}]
    ELSE NoSvDetails

\* one patch operation applied by the appliance to view w.name; a member
\* is named by the last segment of its URI
ApplySvOp(w, op) ==
    IF ~w.ok THEN w
    ELSE LET v == w.views[w.name]
             m == IF op.path = "/name" THEN op.value ELSE op.value[Len(op.value)]
         IN  IF op.path = "/name" THEN
                 IF op.value \notin DOMAIN w.views \/ w.views[op.value].exists
                 THEN [w EXCEPT !.ok = FALSE]
                 ELSE [w EXCEPT !.views = [@ EXCEPT ![op.value] = v, ![w.name] = NoView],
                                !.name = op.value]
             ELSE IF op.path = "/ports" THEN
                 [w EXCEPT !.views[w.name].ports =
                     IF op.op = "add" THEN @ \cup {m} ELSE @ \ {m}]
             ELSE IF op.path = "/initiators" THEN
                 [w EXCEPT !.views[w.name].initiators =
                     IF op.op = "add" THEN @ \cup {m} ELSE @ \ {m}]
             ELSE
                 [w EXCEPT !.views[w.name].virtual_volumes =
                     IF op.op = "add" THEN @ \cup {m} ELSE @ \ {m}]

\* ExportsApi.patch_storage_view: the operations applied in order
RECURSIVE ApplySvOps(_, _)
ApplySvOps(w, ops) ==
    IF ops = <<>> THEN w ELSE ApplySvOps(ApplySvOp(w, Head(ops)), Tail(ops))

\* VplexStorageview.payload
payload(operation, path, value) == [op |-> operation, path |-> path, value |-> value]

\* VplexStorageview.get_storageview_details
get_storageview_details(c, name) == SvRecord(c.views, name)

\* VplexStorageview.create_storageview
create_storageview(c, req) ==
    LET called == [c EXCEPT !.calls = Append(@, Call("create", req.storage_view_name,
                        [i \in 1..Len(req.ports) |-> SvPortUri(req.ports[i])]))]
        made == [exists |-> TRUE, ports |-> {req.ports[i] : i \in 1..Len(req.ports)},
                 initiators |-> {}, virtual_volumes |-> {}]
    IN  IF req.storage_view_name \notin DOMAIN c.views
        THEN fail_json(called, "remote", "Could not create storage view")
        ELSE LET vws == [c.views EXCEPT ![req.storage_view_name] = made]
             IN  [called EXCEPT !.views = vws,
                                !.details = SvRecord(vws, req.storage_view_name),
                                !.changed = TRUE]

\* VplexStorageview.delete_storageview
delete_storageview(c, req) ==
    LET called == [c EXCEPT !.calls = Append(@, Call("delete", req.storage_view_name, <<>>))]
    IN  [called EXCEPT !.views[req.storage_view_name] = NoView]

\* VplexStorageview.is_virtual_vol_in_use: the volume has a storage view
\* among its parents
is_virtual_vol_in_use(c, uri) ==
    \E n \in DOMAIN c.views :
        c.views[n].exists /\ uri[Len(uri)] \in c.views[n].virtual_volumes

\* VplexStorageview.check_port_validity, from port i of the request
RECURSIVE check_port_validity(_, _, _)
check_port_validity(c, req, i) ==
    IF c.status # "run" \/ i > Len(req.ports) THEN c
    ELSE IF req.ports[i] \notin SvPorts
    THEN fail_json(c, "precondition", "Could not get port details")
    ELSE check_port_validity(c, req, i + 1)

\* check_storageobj_validity, lines 598-625: every requested initiator
\* exists and is registered
RECURSIVE SvCheckInitiators(_, _, _)
SvCheckInitiators(c, req, i) ==
    IF c.status # "run" \/ i > Len(req.initiators) THEN c
    ELSE IF req.initiators[i] = "iU"
    THEN fail_json(c, "precondition", "The initiator is unregistered")
    ELSE IF req.initiators[i] \notin SvInits
    THEN fail_json(c, "precondition", "Could not get initiator details")
    ELSE SvCheckInitiators(c, req, i + 1)

\* check_storageobj_validity, lines 649-662: the requested volumes that
\* the cluster has, each once, in the order of the request
RECURSIVE SvKnownVols(_, _)
SvKnownVols(vols, seen) ==
    IF vols = <<>> THEN seen
    ELSE IF Head(vols) \in SvVols /\ \A i \in 1..Len(seen) : seen[i] # Head(vols)
    THEN SvKnownVols(Tail(vols), Append(seen, Head(vols)))
    ELSE SvKnownVols(Tail(vols), seen)

\* check_storageobj_validity, lines 664-689: a volume to add must exist
SvCheckVols(c, req) ==
    IF c.status # "run" THEN c
    ELSE LET known == SvKnownVols(req.virtual_volumes, <<>>)
             missing == \E i \in 1..Len(req.virtual_volumes) :
                            req.virtual_volumes[i] \notin SvVols
         IN  IF missing /\ req.virtual_volume_state = "present-in-view"
             THEN fail_json(c, "precondition", "Could not find virtual volume in VPLEX")
             ELSE [c EXCEPT !.vir_vol = known]

\* check_storageobj_validity, lines 691-739: no other view may hold both
\* one of the ports the view has and one of the initiators of this view and
\* request; the list of ports starts empty at line 591 and receives only
\* the ports of the fetched view (line 696), never the requested ones
SvCheckCombination(c, req) ==
    IF c.status # "run" THEN c
    ELSE LET req_inits == {SvInitUri(req.initiators[i]) : i \in 1..Len(req.initiators)}
             all_ports == c.details.ports
             all_inits == req_inits \cup c.details.initiators
             clash(n) ==
                 /\ c.views[n].exists
                 /\ n # req.storage_view_name
                 /\ req.initiator_state # "absent-in-view"
                 /\ req.port_state # "absent-in-view"
                 /\ SvRecord(c.views, n).initiators \cap all_inits # {}
                 /\ SvRecord(c.views, n).ports \cap all_ports # {}
         IN  IF \E n \in DOMAIN c.views : clash(n)
             THEN fail_json(c, "precondition",
                            "initiator and port combination is already present in another storage view")
             ELSE c

\* VplexStorageview.check_storageobj_validity
check_storageobj_validity(c, req) ==
    SvCheckCombination(SvCheckVols(SvCheckInitiators(c, req, 1), req), req)

\* VplexStorageview.check_flag
check_flag(req) ==
    \/ req.new_storage_view_name # None
    \/ req.ports # <<>> /\ req.port_state # None
    \/ req.initiators # <<>> /\ req.initiator_state # None
    \/ req.virtual_volumes # <<>> /\ req.virtual_volume_state # None

\* update_storageview, lines 412-431: plan the rename
SvPlanRename(c, req) ==
    IF req.new_storage_view_name = req.storage_view_name
       \/ req.new_storage_view_name = None THEN c
    ELSE IF ~validate_name36(req.new_storage_view_name)
    THEN fail_json(c, "input", "invalid storageview name")
    ELSE IF get_storageview_details(c, req.new_storage_view_name) # NoSvDetails
    THEN fail_json(c, "precondition", "The new_storage_name is present already")
    ELSE [c EXCEPT !.patch = Append(@, payload("replace", "/name", req.new_storage_view_name))]

\* SvPlanMembers planning an operation for every listed member, whatever
\* the view holds
RECURSIVE SvPlanMembersBlind(_, _, _, _, _)
SvPlanMembersBlind(patch, uris, state, path, current) ==
    IF uris = <<>> THEN patch
    ELSE LET u == Head(uris)
             next == IF state = "present-in-view"
                     THEN Append(patch, payload("add", path, u))
                     ELSE IF state = "absent-in-view"
                     THEN Append(patch, payload("remove", path, u))
                     ELSE patch
         IN  SvPlanMembersBlind(next, Tail(uris), state, path, current)

\* update_storageview, the loops of lines 436-456, 462-483 and 503-542:
\* an add for every listed member the view lacks, or a remove for every
\* listed member the view has
RECURSIVE SvPlanMembers(_, _, _, _, _)
SvPlanMembers(patch, uris, state, path, current) ==
    IF uris = <<>> THEN patch
    ELSE LET u == Head(uris)
             next == IF state = "present-in-view" /\ u \notin current
                     THEN Append(patch, payload("add", path, u))
                     ELSE IF state = "absent-in-view" /\ u \in current
                     THEN Append(patch, payload("remove", path, u))
                     ELSE patch
         IN  SvPlanMembers(next, Tail(uris), state, path, current)

\* SvPlan planning nothing for the requested ports
SvPlanNoPorts(c, req) ==
    IF c.status # "run" THEN c
    ELSE LET inits_uri == [i \in 1..Len(req.initiators) |-> SvInitUri(req.initiators[i])]
             volume == [i \in 1..Len(c.vir_vol) |-> SvVolUri(Cluster, c.vir_vol[i])]
             p2 == SvPlanMembers(c.patch, inits_uri, req.initiator_state, "/initiators",
                                 c.details.initiators)
             p3 == IF req.virtual_volumes # <<>>
                   THEN SvPlanMembers(p2, volume, req.virtual_volume_state,
                                      "/virtual_volumes", c.details.virtual_volumes)
                   ELSE p2
         IN  [c EXCEPT !.patch = p3,
                       !.warned = \E i \in 1..Len(volume) :
                                     /\ req.virtual_volume_state = "present-in-view"
                                     /\ volume[i] \notin c.details.virtual_volumes
                                     /\ is_virtual_vol_in_use(c, volume[i])]

\* update_storageview, lines 433-542: plan ports, initiators and volumes;
\* a volume already exported to another view draws a warning only
SvPlan(c, req) ==
    IF c.status # "run" THEN c
    ELSE LET ports_uri == [i \in 1..Len(req.ports) |-> SvPortUri(req.ports[i])]
             inits_uri == [i \in 1..Len(req.initiators) |-> SvInitUri(req.initiators[i])]
             volume == [i \in 1..Len(c.vir_vol) |-> SvVolUri(Cluster, c.vir_vol[i])]
             p1 == SvPlanMembers(c.patch, ports_uri, req.port_state, "/ports", c.details.ports)
             p2 == SvPlanMembers(p1, inits_uri, req.initiator_state, "/initiators",
                                 c.details.initiators)
             p3 == IF req.virtual_volumes # <<>>
                   THEN SvPlanMembers(p2, volume, req.virtual_volume_state,
                                      "/virtual_volumes", c.details.virtual_volumes)
                   ELSE p2
         IN  [c EXCEPT !.patch = p3,
                       !.warned = \E i \in 1..Len(volume) :
                                     /\ req.virtual_volume_state = "present-in-view"
                                     /\ volume[i] \notin c.details.virtual_volumes
                                     /\ is_virtual_vol_in_use(c, volume[i])]

\* update_storageview, lines 544-560: send the batch, if any
SvSend(c, req) ==
    IF c.status # "run" \/ c.patch = <<>> THEN c
    ELSE LET called == [c EXCEPT !.calls = Append(@, Call("patch", req.storage_view_name, c.patch))]
             w == ApplySvOps([ok |-> TRUE, views |-> c.views, name |-> req.storage_view_name],
                             c.patch)
         IN  IF ~w.ok
             THEN fail_json(called, "remote", "Could not update the storageview")
             ELSE [called EXCEPT !.views = w.views,
                                 !.details = SvRecord(w.views, w.name),
                                 !.changed = TRUE]

\* VplexStorageview.update_storageview
update_storageview(c, req) == SvSend(SvPlan(SvPlanRename(c, req), req), req)

\* perform_module_operation, lines 822-836: fetch the view; state=absent
SvStepDelete(c, req) ==
    LET c1 == [c EXCEPT !.details = get_storageview_details(c, req.storage_view_name)]
    IN  IF req.state = "absent" THEN
            IF c1.details # NoSvDetails
            THEN [delete_storageview(c1, req) EXCEPT !.changed = TRUE, !.status = "ok",
                                                     !.details = NoSvDetails]
            ELSE [c1 EXCEPT !.status = "ok"]
        ELSE c1

\* perform_module_operation, lines 838-885: validate the ports, create the
\* view, or compare the ports of a create request with the view's
SvStepCreate(c, req) ==
    IF c.status # "run" THEN c
    ELSE LET c1 == check_port_validity(c, req, 1)
         IN  IF c1.status # "run" THEN c1
             ELSE IF c1.details = NoSvDetails THEN
                 IF req.ports # <<>> THEN
                     IF req.port_state = "absent-in-view"
                     THEN fail_json(c1, "precondition", "Could not remove ports")
                     ELSE IF req.new_storage_view_name # None
                     THEN fail_json(c1, "precondition",
                                    "Could not perform create and rename in a single task")
                     ELSE IF ~validate_name36(req.storage_view_name)
                     THEN fail_json(c1, "input", "invalid storageview name")
                     ELSE create_storageview(c1, req)
                 ELSE fail_json(c1, "precondition", "Storage view not present")
             ELSE IF req.port_state = None /\ req.ports # <<>>
                     /\ {SvPortUri(req.ports[i]) : i \in 1..Len(req.ports)} # c1.details.ports
             THEN fail_json(c1, "precondition",
                            "The storageview is already present with different ports")
             ELSE c1

\* perform_module_operation, lines 887-905: validate the members, update
\* the view and report
SvStepUpdate(c, req) ==
    IF c.status # "run" THEN c
    ELSE LET c1 == check_storageobj_validity(c, req)
             c2 == IF c1.status = "run" /\ c1.details # NoSvDetails /\ check_flag(req)
                   THEN update_storageview(c1, req)
                   ELSE IF c1.status = "run" /\ c1.details = NoSvDetails /\ check_flag(req)
                   THEN fail_json(c1, "precondition", "Storage view is absent")
                   ELSE c1
         IN  IF c2.status = "run" THEN [c2 EXCEPT !.status = "ok"] ELSE c2

\* the context an invocation of the storage view module starts from
SvStart ==
    [views |-> views, calls |-> <<>>, status |-> "run", kind |-> None,
     msg |-> None, changed |-> FALSE, details |-> NoSvDetails, patch |-> <<>>,
     vir_vol |-> <<>>, warned |-> FALSE]

\* VplexStorageview.perform_module_operation
SV_perform_module_operation(req) ==
    SvStepUpdate(SvStepCreate(SvStepDelete(SvStart, req), req), req)

\* a storage view request
SvRequest(new, pts, pst, ins, ist, vls, vst, st) ==
    [storage_view_name |-> "sv1", new_storage_view_name |-> new,
     ports |-> pts, port_state |-> pst, initiators |-> ins, initiator_state |-> ist,
     virtual_volumes |-> vls, virtual_volume_state |-> vst, state |-> st]

\* the states a member list can be requested in
SvMemberStates == {"present-in-view", "absent-in-view"}

\* requests about ports, about a rename, about initiators and about
\* virtual volumes
SvRequests ==
    {SvRequest(None, pts, pst, <<>>, None, <<>>, None, st) :
        pts \in SeqsUpTo(SvPorts \cup {"PX"}, MaxSvList),
        pst \in SvMemberStates \cup {None}, st \in {"present", "absent"}}
    \cup {SvRequest(new, pts, pst, <<>>, None, <<>>, None, "present") :
        new \in {"sv1", "sv2", "sv3", "9sv"},
        pts \in {<<>>, <<"P3">>}, pst \in {None, "present-in-view"}}
    \cup {SvRequest(None, pts, pst, ins, ist, <<>>, None, "present") :
        pts \in {<<>>, <<"P3">>}, pst \in SvMemberStates,
        ins \in SeqsUpTo(SvInits \cup {"iU"}, MaxSvList) \ {<<>>},
        ist \in SvMemberStates}
    \cup {SvRequest(None, <<>>, None, <<>>, None, vls, vst, "present") :
        vls \in SeqsUpTo(SvVols \cup {"vX"}, MaxSvList) \ {<<>>},
        vst \in SvMemberStates}

\* one run of the storage view module
SvInvocation ==
    LET c == SV_perform_module_operation(task)
    IN  /\ views' = c.views
        /\ last' = Outcome("storage_view", c, c.views # views)
        /\ tick' = 1 - tick
        /\ fe_ports' = fe_ports
        /\ procs' = procs
        /\ UNCHANGED <<task, cgVars, vvols, migVars, vvVars, initVars, devVars, distVars>>

\* a storage view of the appliance
View(pts, ins, vls) ==
    [exists |-> TRUE, ports |-> pts, initiators |-> ins, virtual_volumes |-> vls]

\* appliance states the storage view module can meet: the view addressed
\* with any members, a second view, and no initiator and port pair in both
InitSV ==
    /\ task \in SvRequests
    /\ \E a \in {NoView} \cup {View(p, i, v) : p \in SUBSET SvPorts, i \in SUBSET SvInits,
                                            v \in {{}, {"v1"}, {"v1", "v2"}}},
          b \in {NoView, View({"P3"}, {"i1"}, {"v2"}), View({"P2", "P3"}, {"i2"}, {})} :
         /\ a.ports \cap b.ports = {} \/ a.initiators \cap b.initiators = {}
         /\ views = [n \in SvNames |-> IF n = "sv1" THEN a ELSE IF n = "sv2" THEN b ELSE NoView]
    /\ cgs = {}
    /\ dcgs = {}
    /\ remote_cgs = {}
    /\ vvols = [v \in VolNames |-> NoVol]
    /\ jobs = [m \in MigNames |-> NoJob]
    /\ sobjs = [cl \in Clusters |-> [d \in ObjNames |-> NoObj]]
    /\ NoVvState
    /\ ports = NoPorts
    /\ NoDevState
    /\ NoDistState
    /\ last = NoOutcome
    /\ tick = 0
    /\ fe_ports = NoFePorts
    /\ procs = NoProcs

NextSV == SvInvocation

SpecSV == InitSV /\ [][NextSV]_vars

----------------------------------------------------------------------------
(* Device module *)

\* longest extents list of a device request
MaxExtList == 2

\* VplexDevice.get_device_uri, for one extent
ExtUri(cluster_name, extent) == <<cluster_name, "extents", extent>>

\* updatemirror, line 699: the URI of a mirror device
MirrorUri(target_cluster, mirror_name) == <<target_cluster, "devices", mirror_name>>

\* a mirror as the appliance lists it under a device: the name of a device
\* of the cluster, or the cluster and the name of a device of another one
LegName(uri) == IF uri[1] = Cluster THEN uri[3] ELSE uri[1] \o "/" \o uri[3]

\* MapsApi.get_map, line 692: the URI of a child device
LegUri(m) ==
    IF m \in LdevNames THEN MirrorUri(Cluster, m)
    ELSE MirrorUri(SubSeq(m, 1, 9), SubSeq(m, 11, Len(m)))

\* the record standing for "no device" (Python None)
NoDevDetails == [name |-> None, geometry |-> None, health_indications |-> {},
                 virtual_volume |-> None, capacity |-> 0, transfer_size |-> 0]

\* DevicesApi.get_device, serialized
LdevRecord(devs, name) ==
    IF name \in DOMAIN devs /\ devs[name].exists
    THEN [name |-> name, geometry |-> devs[name].geometry,
          health_indications |-> IF devs[name].rebuilding THEN {"rebuilding"} ELSE {},
          virtual_volume |-> devs[name].virtual_volume,
          capacity |-> devs[name].capacity,
          transfer_size |-> devs[name].transfer_size]
    ELSE NoDevDetails

\* the record standing for "no distributed device"
NoDistDetails == [name |-> None, capacity |-> 0, virtual_volume |-> None,
                  rebuild_status |-> None, rule_set_name |-> None]

\* DistributedStorageApi.get_distributed_device, serialized
DdevRecord(dds, name) ==
    IF name \in DOMAIN dds /\ dds[name].exists
    THEN [name |-> name, capacity |-> dds[name].capacity,
          virtual_volume |-> dds[name].virtual_volume,
          rebuild_status |-> dds[name].rebuild_status,
          rule_set_name |-> dds[name].rule_set_name]
    ELSE NoDistDetails

\* the extents that are legs of a device
ExtentsOf(exts, name) ==
    {e \in DOMAIN exts : exts[e].exists /\ exts[e].use = "used" /\ exts[e].used_by = name}

\* one patch operation applied by the appliance to local device w.name
ApplyDevOp(w, op) ==
    IF ~w.ok THEN w
    ELSE IF op.path = "/name" THEN
        IF op.value \notin DOMAIN w.ldevs \/ w.ldevs[op.value].exists
        THEN [w EXCEPT !.ok = FALSE]
        ELSE [w EXCEPT !.ldevs = [@ EXCEPT ![op.value] = w.ldevs[w.name], ![w.name] = NoLdev],
                       !.extents = [e \in DOMAIN @ |->
                                       IF @[e].used_by = w.name
                                       THEN [@[e] EXCEPT !.used_by = op.value] ELSE @[e]],
                       !.name = op.value]
    ELSE IF op.path = "/transfer_size" THEN
        [w EXCEPT !.ldevs[w.name].transfer_size = op.value]
    ELSE IF op.value[2] = "extents" THEN
        LET e == op.value[3]
        IN  IF op.op = "add" THEN
                IF w.extents[e].use # "claimed" THEN [w EXCEPT !.ok = FALSE]
                ELSE [w EXCEPT !.extents[e].use = "used", !.extents[e].used_by = w.name]
            ELSE IF w.extents[e].used_by # w.name THEN [w EXCEPT !.ok = FALSE]
            ELSE [w EXCEPT !.extents[e].use = "claimed", !.extents[e].used_by = None]
    ELSE
        [w EXCEPT !.ldevs[w.name].mirrors =
            IF op.op = "add" THEN @ \cup {LegName(op.value)} ELSE @ \ {LegName(op.value)}]

\* DevicesApi.patch_local_device: the operations applied in order
RECURSIVE ApplyDevOps(_, _)
ApplyDevOps(w, ops) ==
    IF ops = <<>> THEN w ELSE ApplyDevOps(ApplyDevOp(w, Head(ops)), Tail(ops))

\* VplexDevice.get_device_patch_payload
get_device_patch_payload(operation, path, value) ==
    [op |-> operation, path |-> path, value |-> value]

\* capacity of every device of the second cluster
RemoteCapacity == 2

\* DevicesApi.get_device for a device of the second cluster, serialized
RdevRecord(rdevs, name) ==
    IF name \in rdevs
    THEN [name |-> name, geometry |-> "raid-1", health_indications |-> {},
          virtual_volume |-> None, capacity |-> RemoteCapacity, transfer_size |-> 131072]
    ELSE NoDevDetails

\* VplexDevice.get_device: the name is looked for among the devices of the
\* module's own cluster (lines 433-439); only when it is there the record
\* is read from cluster_name (441), and a read the appliance refuses
\* returns None (444-449)
get_device(c, cluster_name, device_name) ==
    IF LdevRecord(c.ldevs, device_name) = NoDevDetails THEN NoDevDetails
    ELSE IF cluster_name = Cluster THEN LdevRecord(c.ldevs, device_name)
    ELSE RdevRecord(c.remote_devs, device_name)

\* VplexDevice.getdistdev
getdistdev(c, device_name) == DdevRecord(c.ddevs, device_name)

\* VplexDevice.create_device; the appliance builds a device on claimed
\* extents only
create_device(c, req) ==
    LET called == [c EXCEPT !.calls = Append(@, Call("create", req.device_name,
                        [i \in 1..Len(req.extents) |-> ExtUri(Cluster, req.extents[i])]))]
        legs == {req.extents[i] : i \in 1..Len(req.extents)}
    IN  IF \/ req.device_name \notin DOMAIN c.ldevs
           \/ \E e \in legs : e \notin DOMAIN c.extents \/ c.extents[e].use # "claimed"
        THEN fail_json(called, "remote", "Could not create device")
        ELSE LET devs == [c.ldevs EXCEPT ![req.device_name] =
                            [exists |-> TRUE, geometry |-> req.geometry, rebuilding |-> FALSE,
                             virtual_volume |-> None,
                             capacity |-> c.extents[req.extents[1]].capacity,
                             transfer_size |-> 131072, mirrors |-> {}]]
                 exts == [e \in DOMAIN c.extents |->
                             IF e \in legs
                             THEN [c.extents[e] EXCEPT !.use = "used", !.used_by = req.device_name]
                             ELSE c.extents[e]]
             IN  [called EXCEPT !.ldevs = devs, !.extents = exts,
                                !.details = LdevRecord(devs, req.device_name),
                                !.changed = TRUE, !.create_flag = TRUE]

\* VplexDevice.delete_device; the appliance releases the extents
delete_device(c, req) ==
    LET called == [c EXCEPT !.calls = Append(@, Call("delete", req.device_name, <<>>))]
    IN  [called EXCEPT !.ldevs[req.device_name] = NoLdev,
                       !.extents = [e \in DOMAIN @ |->
                                       IF @[e].used_by = req.device_name
                                       THEN [@[e] EXCEPT !.use = "claimed", !.used_by = None]
                                       ELSE @[e]],
                       !.details = NoDevDetails, !.changed = TRUE]

\* VplexDevice.update_local_device
update_local_device(c, req) ==
    LET called == [c EXCEPT !.calls = Append(@, Call("patch", req.device_name, c.patch))]
        w == ApplyDevOps([ok |-> TRUE, ldevs |-> c.ldevs, extents |-> c.extents,
                          name |-> req.device_name], c.patch)
    IN  IF ~w.ok
        THEN fail_json(called, "remote", "Could not update the device")
        ELSE [called EXCEPT !.ldevs = w.ldevs, !.extents = w.extents,
                            !.details = LdevRecord(w.ldevs, w.name), !.changed = TRUE]

\* VplexDevice.update_dist_device: mirrors added to or removed from the
\* legs of a distributed device
update_dist_device(c, req) ==
    LET called == [c EXCEPT !.calls = Append(@, Call("patch", req.device_name, c.dpatch))]
        op == c.dpatch[1]
        dds == [c.ddevs EXCEPT ![req.device_name].legs =
                   IF op.op = "add" THEN @ \cup {LegName(op.value)}
                   ELSE @ \ {LegName(op.value)}]
    IN  [called EXCEPT !.ddevs = dds, !.details = DdevRecord(dds, req.device_name),
                       !.changed = TRUE]

\* VplexDevice.is_extent_inuse
is_extent_inuse(c, extent_name) ==
    IF extent_name \in DOMAIN c.extents /\ c.extents[extent_name].exists
    THEN c.extents[extent_name]
    ELSE NoExt

\* VplexDevice.updatemirror: the operation for the mirror, if one is
\* needed; children are the devices under the device addressed
updatemirror(c, req, children, capacity) ==
    LET target_cluster == IF req.target_cluster = None THEN Cluster ELSE req.target_cluster
        mirror_uri == MirrorUri(target_cluster, req.mirror_name)
        mirror_details == get_device(c, target_cluster, req.mirror_name)
    IN  IF req.mirror_state = "present-in-device" THEN
            IF mirror_details = NoDevDetails
            THEN [c |-> fail_json(c, "precondition", "Mirror not present"), op |-> <<>>]
            ELSE IF mirror_uri \notin children THEN
                IF capacity > mirror_details.capacity
                THEN [c |-> fail_json(c, "precondition",
                                      "The mirror device capacity should not be lesser"),
                      op |-> <<>>]
                ELSE [c |-> c, op |-> <<get_device_patch_payload("add", "/legs", mirror_uri)>>]
            ELSE [c |-> c, op |-> <<>>]
        ELSE IF mirror_uri \in children
        THEN [c |-> c, op |-> <<get_device_patch_payload("remove", "/legs", mirror_uri)>>]
        ELSE [c |-> c, op |-> <<>>]

\* perform_module_operation, lines 765-796: validate, fetch, create
DevStepCreate(c, req) ==
    IF ~validate_name(req.device_name) THEN fail_json(c, "input", "invalid device name")
    ELSE
        LET d == get_device(c, Cluster, req.device_name)
            c1 == [c EXCEPT !.details = d,
                            !.dist = IF d = NoDevDetails THEN getdistdev(c, req.device_name)
                                     ELSE NoDistDetails]
        IN  IF req.state = "present" /\ d = NoDevDetails
               /\ req.extents # <<>> /\ req.extent_state = "present-in-device" THEN
                IF req.stripe_depth # None /\ req.geometry \in {"raid-1", "raid-c"}
                THEN fail_json(c1, "input", "stripe_depth not required")
                ELSE IF req.geometry = "raid-0" /\ req.stripe_depth = None
                THEN fail_json(c1, "input", "stripe_depth required")
                ELSE create_device(c1, req)
            ELSE c1

\* DevStepDelete without the test of the rebuild state
DevStepDeleteWhileRebuilding(c, req) ==
    IF c.status # "run" \/ c.create_flag THEN c
    ELSE IF req.state = "absent" /\ c.details # NoDevDetails THEN
        IF c.details.virtual_volume # None
        THEN fail_json(c, "precondition", "Could not delete device, it is in use")
        ELSE delete_device(c, req)
    ELSE c

\* perform_module_operation, lines 798-817: state=absent
DevStepDelete(c, req) ==
    IF c.status # "run" \/ c.create_flag THEN c
    ELSE IF req.state = "absent" /\ c.details # NoDevDetails THEN
        IF "rebuilding" \in c.details.health_indications
        THEN fail_json(c, "precondition", "Could not delete device since device is rebuilding")
        ELSE IF c.details.virtual_volume # None
        THEN fail_json(c, "precondition", "Could not delete device, it is in use")
        ELSE delete_device(c, req)
    ELSE c

\* perform_module_operation, lines 819-836: plan the rename; skipped by a
\* create or a delete in the same run
DevStepRename(c, req) ==
    IF c.status # "run" \/ c.create_flag THEN c
    ELSE IF req.state = "present" /\ req.new_device_name # None /\ c.details # NoDevDetails THEN
        IF ~validate_name(req.new_device_name)
        THEN fail_json(c, "input", "invalid new device name")
        ELSE IF req.new_device_name = c.details.name THEN c
        ELSE IF get_device(c, Cluster, req.new_device_name) # NoDevDetails
        THEN fail_json(c, "precondition", "New Device name already exists")
        ELSE [c EXCEPT !.patch = Append(@, get_device_patch_payload(
                                               "replace", "/name", req.new_device_name))]
    ELSE c

\* perform_module_operation, lines 838-879: plan the transfer size
DevStepTransferSize(c, req) ==
    IF c.status # "run" THEN c
    ELSE IF req.state = "present" /\ req.transfer_size # 0 /\ c.details # NoDevDetails THEN
        IF c.details.geometry # "raid-1"
        THEN fail_json(c, "precondition", "Failed to replace property transfer_size")
        ELSE IF req.transfer_size = c.details.transfer_size THEN c
        ELSE IF req.transfer_size < 40960 \/ req.transfer_size > 134217728
                \/ req.transfer_size % 4096 # 0
        THEN fail_json(c, "input", "invalid transfer size")
        ELSE [c EXCEPT !.patch = Append(@, get_device_patch_payload(
                                               "replace", "/transfer_size", req.transfer_size))]
    ELSE c

\* DevPlanExtent planning an operation for every listed extent that is
\* claimed or used, whatever device uses it
DevPlanExtentAnyOwner(c, req, extent, ext) ==
    LET value == ExtUri(Cluster, extent)
    IN  IF req.extent_state = "present-in-device" THEN
            IF ext.use = "claimed" /\ c.details.capacity > ext.capacity
            THEN fail_json(c, "precondition", "The size of the device is greater than the extent")
            ELSE [c EXCEPT !.patch = Append(@, get_device_patch_payload("add", "/legs", value))]
        ELSE [c EXCEPT !.patch = Append(@, get_device_patch_payload("remove", "/legs", value))]

\* perform_module_operation, lines 892-954: the operation planned for one
\* listed extent of a raid-1 device, given its use
DevPlanExtent(c, req, extent, ext) ==
    LET value == ExtUri(Cluster, extent)
    IN  IF req.extent_state = "present-in-device" THEN
            IF ext.use = "claimed" THEN
                IF c.details.capacity > ext.capacity
                THEN fail_json(c, "precondition",
                               "The size of the device is greater than the extent")
                ELSE [c EXCEPT !.patch = Append(@, get_device_patch_payload("add", "/legs", value))]
            ELSE IF ext.use = "used" /\ ext.used_by # req.device_name
            THEN fail_json(c, "precondition", "Extent is used by another device")
            ELSE c
        ELSE IF req.extent_state = "absent-in-device" THEN
            IF ext.use = "used" /\ ext.used_by = req.device_name THEN
                IF "rebuilding" \in c.details.health_indications
                THEN fail_json(c, "precondition",
                               "Could not remove extent since the device is in rebuild state")
                ELSE [c EXCEPT !.patch = Append(@, get_device_patch_payload(
                                                       "remove", "/legs", value))]
            ELSE c
        ELSE c

\* the loop of perform_module_operation over extents, from index i
RECURSIVE DevExtentLoop(_, _, _)
DevExtentLoop(c, req, i) ==
    IF c.status # "run" \/ i > Len(req.extents) THEN c
    ELSE LET ext == is_extent_inuse(c, req.extents[i])
         IN  IF ext = NoExt
             THEN fail_json(c, "remote", "Could not get extent details")
             ELSE DevExtentLoop(DevPlanExtent(c, req, req.extents[i], ext), req, i + 1)

\* perform_module_operation, lines 881-986: add or remove extents; only a
\* raid-1 device takes a change
DevStepExtents(c, req) ==
    IF c.status # "run" THEN c
    ELSE IF req.state = "present" /\ req.extents # <<>> /\ req.extent_state # None
            /\ c.details # NoDevDetails THEN
        IF c.details.geometry = "raid-1" THEN DevExtentLoop(c, req, 1)
        ELSE IF ~c.create_flag THEN
            LET exts == ExtentsOf(c.extents, req.device_name) \cup c.ldevs[req.device_name].mirrors
                listed == {req.extents[i] : i \in 1..Len(req.extents)}
                flag == IF req.extent_state = "present-in-device"
                        THEN \E e \in listed : e \notin exts
                        ELSE \E e \in listed : e \in exts
            IN  IF flag
                THEN fail_json(c, "precondition",
                               "Add/Remove extent is supported only on raid-1 device")
                ELSE c
        ELSE c
    ELSE c

\* perform_module_operation, lines 988-1010: plan the mirror of a local
\* device, or of a distributed device when no local device has the name
DevStepMirror(c, req) ==
    IF c.status # "run" THEN c
    ELSE IF req.state = "present" /\ req.mirror_name # None /\ req.mirror_state # None THEN
        IF c.details # NoDevDetails THEN
            LET r == updatemirror(c, req,
                        {LegUri(m) : m \in c.ldevs[req.device_name].mirrors},
                        c.details.capacity)
            IN  [r.c EXCEPT !.patch = @ \o r.op]
        ELSE IF c.dist # NoDistDetails THEN
            LET r == updatemirror(c, req,
                        {LegUri(m) : m \in c.ddevs[req.device_name].legs},
                        c.dist.capacity)
            IN  [r.c EXCEPT !.dpatch = @ \o r.op]
        ELSE c
    ELSE c

\* perform_module_operation, lines 1012-1035: send the batches and report
DevStepUpdate(c, req) ==
    IF c.status # "run" THEN c
    ELSE
        LET c1 == IF Len(c.patch) > 0 THEN update_local_device(c, req) ELSE c
            c2 == IF c1.status = "run" /\ Len(c1.dpatch) > 0
                  THEN update_dist_device(c1, req) ELSE c1
        IN  IF c2.status # "run" THEN c2
            ELSE IF c2.details = NoDevDetails /\ req.state = "present"
                    /\ c2.dist = NoDistDetails
            THEN fail_json(c2, "precondition", "Could not get device")
            ELSE [c2 EXCEPT !.status = "ok",
                            !.details = IF c2.dist # NoDistDetails THEN c2.dist ELSE @]

\* the context an invocation of the device module starts from
DevStart ==
    [extents |-> extents, ldevs |-> ldevs, ddevs |-> ddevs, remote_devs |-> remote_devs,
     calls |-> <<>>, status |-> "run", kind |-> None, msg |-> None, changed |-> FALSE,
     details |-> NoDevDetails, dist |-> NoDistDetails, patch |-> <<>>,
     dpatch |-> <<>>, create_flag |-> FALSE]

\* VplexDevice.perform_module_operation
Dev_perform_module_operation(req) ==
    DevStepUpdate(DevStepMirror(DevStepExtents(DevStepTransferSize(DevStepRename(
        DevStepDelete(DevStepCreate(DevStart, req), req), req), req), req), req), req)

\* a device request
DevRequest(name, st, geo, sd, exts, est, new, mir, mst, ts) ==
    [device_name |-> name, state |-> st, geometry |-> geo, stripe_depth |-> sd,
     extents |-> exts, extent_state |-> est, new_device_name |-> new,
     mirror_name |-> mir, mirror_state |-> mst, target_cluster |-> None,
     transfer_size |-> ts]

\* the states a member can be requested in
DevMemberStates == {"present-in-device", "absent-in-device"}

\* requests on a local device: extents to add or remove, a delete, the
\* geometries of a create, a rename, a transfer size, a local mirror
DevLocalRequests ==
    {DevRequest(n, st, "raid-1", None, exts, est, None, None, None, 0) :
        n \in {"L1", "9d"}, st \in {"present", "absent"},
        exts \in SeqsUpTo(ExtNames \cup {"eX"}, MaxExtList) \ {<<>>}, est \in DevMemberStates}
    \cup {DevRequest("L1", st, "raid-1", None, <<>>, None, None, None, None, 0) :
        st \in {"present", "absent"}}
    \cup {DevRequest("L1", "present", geo, sd, <<"e1">>, "present-in-device", None, None, None, 0) :
        geo \in {"raid-0", "raid-1"}, sd \in {None, "4KB"}}
    \cup {DevRequest("L1", "present", "raid-1", None, <<>>, None, new, None, None, ts) :
        new \in {None, "L1", "L2", "L3", "9d"}, ts \in {0, 131072, 40960, 4096}}
    \cup {DevRequest("L1", "present", "raid-1", None, <<>>, None, None, mir, mst, 0) :
        mir \in {"L2", "L3"}, mst \in DevMemberStates}

\* requests naming a distributed device: a mirror to add or remove, the
\* create of a local device of that name, the rename of one to that name
DevDistRequests ==
    {DevRequest("DD1", "present", "raid-1", None, <<>>, None, None, mir, mst, 0) :
        mir \in {"L2", "L3"}, mst \in DevMemberStates}
    \cup {DevRequest("DD1", "present", "raid-1", None, <<"e1">>, "present-in-device",
                     None, None, None, 0),
          DevRequest("L2", "present", "raid-1", None, <<>>, None, "DD1", None, None, 0)}

\* one run of the device module
DevInvocation ==
    LET c == Dev_perform_module_operation(task)
    IN  /\ extents' = c.extents
        /\ ldevs' = c.ldevs
        /\ ddevs' = c.ddevs
        /\ last' = Outcome("device", c,
                           c.extents # extents \/ c.ldevs # ldevs \/ c.ddevs # ddevs)
        /\ tick' = 1 - tick
        /\ fe_ports' = fe_ports
        /\ procs' = procs
        /\ UNCHANGED <<task, cgVars, vvols, migVars, vvVars, initVars, svVars,
                       degraded, dvvs, dcgrps>>

\* a local device, as the device module reads it
Ldev(geo, reb, vol, cap, mirs) ==
    [exists |-> TRUE, geometry |-> geo, rebuilding |-> reb, virtual_volume |-> vol,
     capacity |-> cap, transfer_size |-> 131072, mirrors |-> mirs]

\* an extent that no device uses, and one that a device uses
Claimed(cap) == [exists |-> TRUE, use |-> "claimed", used_by |-> None, capacity |-> cap]
Used(dev, cap) == [exists |-> TRUE, use |-> "used", used_by |-> dev, capacity |-> cap]

\* a distributed device with the given local legs
Ddev(vol, rebuild, rule, legs) ==
    [exists |-> TRUE, virtual_volume |-> vol, rebuild_status |-> rebuild,
     rule_set_name |-> rule, legs |-> legs, capacity |-> 1]

\* the part of the appliance the device module never changes, left empty
InitDevRest ==
    /\ cgs = {}
    /\ dcgs = {}
    /\ remote_cgs = {}
    /\ vvols = [v \in VolNames |-> NoVol]
    /\ jobs = [m \in MigNames |-> NoJob]
    /\ sobjs = [cl \in Clusters |-> [d \in ObjNames |-> NoObj]]
    /\ NoVvState
    /\ ports = NoPorts
    /\ NoSvState
    /\ dvvs = [v \in DvvNames |-> NoDvv]
    /\ dcgrps = [g \in DcgNames |-> NoDcg]
    /\ last = NoOutcome
    /\ tick = 0
    /\ fe_ports = NoFePorts
    /\ procs = NoProcs

\* appliance states for the requests on a local device: device L1 absent
\* or present, device L2 present, every extent claimed or a leg of one
InitDevLocal ==
    /\ task \in DevLocalRequests
    /\ \E a \in {NoLdev} \cup {Ldev(g, r, v, cap, m) : g \in {"raid-1", "raid-0"},
                                 r \in BOOLEAN, v \in {None, "v1"}, cap \in {1, 2},
                                 m \in {{}, {"L2"}}},
          b \in {Ldev("raid-1", FALSE, None, 1, {}), Ldev("raid-1", FALSE, None, 2, {})},
          x \in {Claimed(1), Claimed(2), Used("L1", 2), Used("L2", 2)},
          y \in {Claimed(2), Used("L1", 2), Used("L2", 2)} :
         /\ a.exists \/ "L1" \notin {x.used_by, y.used_by}
         /\ ldevs = [d \in LdevNames |-> IF d = "L1" THEN a ELSE IF d = "L2" THEN b ELSE NoLdev]
         /\ extents = [e \in ExtNames |-> IF e = "e1" THEN x ELSE y]
    /\ degraded = None
    /\ ddevs = [d \in DdNames |-> NoDdev]
    /\ InitDevRest

\* appliance states for the requests naming a distributed device, with or
\* without a degraded cluster
InitDevDist ==
    /\ task \in DevDistRequests
    /\ degraded \in {None, "cluster-2"}
    /\ \E dd \in {NoDdev, Ddev(None, "done", None, {}), Ddev("dv1", "done", None, {"L2"})},
          b \in {NoLdev, Ldev("raid-1", FALSE, None, 1, {}), Ldev("raid-1", FALSE, None, 2, {})} :
         /\ dd.legs = {} \/ b.exists
         /\ ddevs = [d \in DdNames |-> IF d = "DD1" THEN dd ELSE NoDdev]
         /\ ldevs = [d \in LdevNames |-> IF d = "L2" THEN b ELSE NoLdev]
    /\ extents = [e \in ExtNames |-> Claimed(2)]
    /\ InitDevRest

InitDev == InitDevLocal \/ InitDevDist

NextDev == DevInvocation

SpecDev == InitDev /\ [][NextDev]_vars

----------------------------------------------------------------------------
(* Distributed consistency group module *)

\* longest distributed_virtual_volumes list in a request
MaxDvList == 2

\* the uri of a distributed virtual volume in a patch operation
DvvUri(v) == <<"distributed_storage", "distributed_virtual_volumes", v>>

\* the distributed virtual volumes of a distributed consistency group
DcgMembers(vols, name) ==
    {v \in DOMAIN vols : vols[v].exists /\ vols[v].consistency_group = name}

\* no distributed consistency group details (d_cg_details is None)
NoDcgDetails ==
    [name |-> None, auto_resume_at_loser |-> None, detach_rule |-> None,
     virtual_volumes |-> {}, suspended |-> FALSE]

\* the record the appliance returns for a distributed consistency group
DcgRecord(grps, vols, name) ==
    [name |-> name,
     auto_resume_at_loser |-> IF grps[name].auto_resume_at_loser THEN "true" ELSE "false",
     detach_rule |-> grps[name].detach_rule,
     virtual_volumes |-> {DvvUri(v) : v \in DcgMembers(vols, name)},
     suspended |-> grps[name].suspended]

\* the appliance applying one patch operation to a distributed consistency
\* group; w holds the groups, the volumes and the group's name
ApplyDcgOp(w, op) ==
    IF op.path = "/virtual_volumes" THEN
        [w EXCEPT !.dvvs[op.value[3]].consistency_group =
                      IF op.op = "add" THEN w.name ELSE None]
    ELSE IF op.path = "/auto_resume_at_loser" THEN
        [w EXCEPT !.dcgrps[w.name].auto_resume_at_loser = (op.value = "true")]
    ELSE IF op.path = "/detach_rule" THEN
        [w EXCEPT !.dcgrps[w.name].detach_rule = op.value]
    ELSE
        [dcgrps |-> [g \in DOMAIN w.dcgrps |->
                        IF g = op.value THEN w.dcgrps[w.name]
                        ELSE IF g = w.name THEN NoDcg ELSE w.dcgrps[g]],
         dvvs |-> [v \in DOMAIN w.dvvs |->
                        IF w.dvvs[v].consistency_group = w.name
                        THEN [w.dvvs[v] EXCEPT !.consistency_group = op.value]
                        ELSE w.dvvs[v]],
         name |-> op.value]

\* the appliance applying the operations of a patch in order
RECURSIVE ApplyDcgOps(_, _, _)
ApplyDcgOps(w, patch, i) ==
    IF i > Len(patch) THEN w ELSE ApplyDcgOps(ApplyDcgOp(w, patch[i]), patch, i + 1)

\* VplexDistributedConsistencyGroup.get_d_cgrp
get_d_cgrp(c, dr_cg_name) ==
    IF dr_cg_name \in DOMAIN c.dcgrps /\ c.dcgrps[dr_cg_name].exists
    THEN DcgRecord(c.dcgrps, c.dvvs, dr_cg_name)
    ELSE NoDcgDetails

\* VplexDistributedConsistencyGroup.create_d_cgrp
create_d_cgrp(c, name) ==
    LET called == [c EXCEPT !.calls = Append(@, Call("create", name, <<>>))]
    IN  IF name \notin DOMAIN c.dcgrps \/ c.dcgrps[name].exists
        THEN fail_json(called, "remote", "Could not create distributed consistency group")
        ELSE LET grps == [c.dcgrps EXCEPT ![name] =
                             [exists |-> TRUE, auto_resume_at_loser |-> FALSE,
                              detach_rule |-> "no_automatic_winner", suspended |-> FALSE]]
             IN  [called EXCEPT !.dcgrps = grps,
                                !.details = DcgRecord(grps, c.dvvs, name),
                                !.changed = TRUE]

\* VplexDistributedConsistencyGroup.delete_d_cgrp; the appliance refuses
\* to delete a group that holds volumes
delete_d_cgrp(c, name) ==
    LET called == [c EXCEPT !.calls = Append(@, Call("delete", name, <<>>))]
    IN  IF DcgMembers(c.dvvs, name) # {}
        THEN fail_json(called, "remote", "Could not delete distributed consistency group")
        ELSE [called EXCEPT !.dcgrps[name] = NoDcg,
                            !.details = NoDcgDetails,
                            !.changed = TRUE]

\* VplexDistributedConsistencyGroup.update_d_cgrp
update_d_cgrp(c, name, patch) ==
    LET called == [c EXCEPT !.calls = Append(@, Call("patch", name, patch))]
        w == ApplyDcgOps([dcgrps |-> c.dcgrps, dvvs |-> c.dvvs, name |-> name], patch, 1)
    IN  [called EXCEPT !.dcgrps = w.dcgrps, !.dvvs = w.dvvs,
                       !.details = DcgRecord(w.dcgrps, w.dvvs, w.name),
                       !.changed = TRUE]

\* VplexDistributedConsistencyGroup.d_resume
d_resume(c, name, resume_at) ==
    LET called == [c EXCEPT !.calls = Append(@, Call("resume", name, resume_at))]
        grps == [c.dcgrps EXCEPT ![name].suspended = FALSE]
    IN  [called EXCEPT !.dcgrps = grps,
                       !.details = DcgRecord(grps, c.dvvs, name),
                       !.changed = TRUE]

\* VplexDistributedConsistencyGroup.is_distributed_volume_inuse
is_distributed_volume_inuse(c, dr_vol_name) ==
    IF dr_vol_name \in DOMAIN c.dvvs /\ c.dvvs[dr_vol_name].exists
    THEN [found |-> TRUE, locality |-> c.dvvs[dr_vol_name].locality,
          used_dr_cg_name |-> c.dvvs[dr_vol_name].consistency_group]
    ELSE [found |-> FALSE, locality |-> None, used_dr_cg_name |-> None]

\* check_name_in_clusters looking at the first cluster only
check_name_in_clustersFirstOnly(c, name) ==
    IF name \in c.cgs THEN Cluster ELSE None

\* VplexDistributedConsistencyGroup.check_name_in_clusters: the first
\* cluster that has a local consistency group of the name, or None
check_name_in_clusters(c, name) ==
    IF name \in c.cgs THEN Cluster
    ELSE IF name \in c.remote_cgs THEN "cluster-2"
    ELSE None

\* perform_module_operation, lines 457-474: validate, fetch, delete
DcgStepDelete(c, req) ==
    IF ~validate_name(req.distributed_cg_name)
    THEN fail_json(c, "input", "invalid distributed_cg_name")
    ELSE
        LET c1 == [c EXCEPT !.details = get_d_cgrp(c, req.distributed_cg_name)]
        IN  IF req.state = "absent" THEN
                IF c1.degraded # None /\ c1.details # NoDcgDetails
                THEN fail_json(c1, "precondition", "Could not delete as cluster is degraded")
                ELSE IF c1.degraded # None \/ c1.details = NoDcgDetails
                THEN [c1 EXCEPT !.status = "ok", !.details = NoDcgDetails]
                ELSE delete_d_cgrp(c1, req.distributed_cg_name)
            ELSE c1

\* DcgStepDegraded without the test of the requested changes
DcgStepDegradedOff(c, req) == c

\* perform_module_operation, lines 476-488: with a degraded cluster, only
\* a request that asks for nothing on an existing group goes on
DcgStepDegraded(c, req) ==
    IF c.status # "run" THEN c
    ELSE IF req.state = "present" /\ c.degraded # None THEN
        IF req.resume_at # None /\ c.details = NoDcgDetails
        THEN fail_json(c, "precondition", "Could not perform resume as consistency group not found")
        ELSE IF \/ c.details = NoDcgDetails
                \/ req.new_distributed_cg_name # None
                \/ req.detach_rule # None
                \/ req.distributed_virtual_volumes # <<>>
                \/ req.auto_resume_at_loser # None
        THEN fail_json(c, "precondition", "Could not perform the operation as cluster is degraded")
        ELSE c
    ELSE c

\* perform_module_operation, lines 490-513: resume a suspended group
DcgStepResume(c, req) ==
    IF c.status # "run" THEN c
    ELSE IF req.state = "present" /\ c.details # NoDcgDetails /\ req.resume_at # None THEN
        IF req.resume_at \notin Clusters
        THEN fail_json(c, "input", "Provided resume_at cluster is invalid")
        ELSE IF c.details.virtual_volumes = {}
        THEN fail_json(c, "precondition", "Could not resume, no virtual volume is present")
        ELSE IF c.details.suspended
        THEN d_resume(c, req.distributed_cg_name, req.resume_at)
        ELSE c
    ELSE c

\* perform_module_operation, lines 515-539: create
DcgStepCreate(c, req) ==
    IF c.status # "run" THEN c
    ELSE IF req.state = "present" /\ c.details = NoDcgDetails THEN
        IF req.new_distributed_cg_name # None
        THEN fail_json(c, "precondition", "Could not perform create and rename in a single task")
        ELSE IF req.resume_at # None
        THEN fail_json(c, "precondition", "Could not resume, as it does not exists")
        ELSE IF check_name_in_clusters(c, req.distributed_cg_name) # None
        THEN fail_json(c, "precondition", "already exists with same name in cluster")
        ELSE create_d_cgrp(c, req.distributed_cg_name)
    ELSE c

\* perform_module_operation, lines 543-581: the checks on one requested
\* volume and the operation planned for it
DcgCheckMember(c, req, dr_vols) ==
    LET use == is_distributed_volume_inuse(c, dr_vols)
        value == DvvUri(dr_vols)
    IN  IF ~use.found THEN
            fail_json(c, "remote", "Could not get distributed virtual volume")
        ELSE IF use.locality # "distributed" THEN
            fail_json(c, "precondition", "Virtual volume locality should be distributed")
        ELSE IF use.used_dr_cg_name \notin {req.distributed_cg_name, None} THEN
            fail_json(c, "precondition",
                      "Distributed virtual volume used by another distributed consistency group")
        ELSE IF use.used_dr_cg_name = None
                /\ req.distributed_virtual_volume_state = "present-in-cg" THEN
            [c EXCEPT !.patch = Append(@, [op |-> "add", path |-> "/virtual_volumes",
                                           value |-> value])]
        ELSE IF use.used_dr_cg_name = req.distributed_cg_name
                /\ req.distributed_virtual_volume_state = "absent-in-cg" THEN
            [c EXCEPT !.patch = Append(@, [op |-> "remove", path |-> "/virtual_volumes",
                                           value |-> value])]
        ELSE c

\* the loop of perform_module_operation over distributed_virtual_volumes
RECURSIVE DcgVolumeLoop(_, _, _)
DcgVolumeLoop(c, req, i) ==
    IF c.status # "run" \/ i > Len(req.distributed_virtual_volumes) THEN c
    ELSE DcgVolumeLoop(DcgCheckMember(c, req, req.distributed_virtual_volumes[i]), req, i + 1)

\* perform_module_operation, lines 541-581: plan the membership operations
DcgStepVolumes(c, req) ==
    IF c.status # "run" THEN c
    ELSE IF /\ req.state = "present"
            /\ req.distributed_virtual_volumes # <<>>
            /\ req.distributed_virtual_volume_state # None
    THEN DcgVolumeLoop(c, req, 1)
    ELSE c

\* perform_module_operation, lines 583-595: plan auto_resume_at_loser
DcgStepAutoResume(c, req) ==
    IF c.status # "run" THEN c
    ELSE IF req.state = "present" /\ req.auto_resume_at_loser # None
            /\ req.auto_resume_at_loser # c.details.auto_resume_at_loser
    THEN [c EXCEPT !.patch = Append(@, [op |-> "replace", path |-> "/auto_resume_at_loser",
                                        value |-> req.auto_resume_at_loser])]
    ELSE c

\* perform_module_operation, lines 597-640: plan the detach rule, a
\* cluster name standing for the rule "winner" of that cluster
DcgStepDetachRule(c, req) ==
    IF c.status # "run" THEN c
    ELSE IF req.state = "present" /\ req.detach_rule # None THEN
        IF req.detach_rule \notin {"no_automatic_winner"} \cup Clusters
        THEN fail_json(c, "input", "Provided detach_rule is invalid")
        ELSE IF req.detach_rule = c.details.detach_rule THEN c
        ELSE [c EXCEPT !.patch = Append(@, [op |-> "replace", path |-> "/detach_rule",
                                            value |-> req.detach_rule])]
    ELSE c

\* DcgStepRename without the test for the name the group has already
DcgStepRenameNoSameNameTest(c, req) ==
    IF c.status # "run" THEN c
    ELSE IF req.state = "present" /\ req.new_distributed_cg_name # None
            /\ c.details # NoDcgDetails THEN
        IF ~validate_name(req.new_distributed_cg_name)
        THEN fail_json(c, "input", "invalid new_distributed_cg_name")
        ELSE IF check_name_in_clusters(c, req.new_distributed_cg_name) # None
        THEN fail_json(c, "precondition", "Could not rename, already exists with same name in cluster")
        ELSE [c EXCEPT !.patch = Append(@, [op |-> "replace", path |-> "/name",
                                            value |-> req.new_distributed_cg_name])]
    ELSE c

\* perform_module_operation, lines 642-670: plan the rename
DcgStepRename(c, req) ==
    IF c.status # "run" THEN c
    ELSE IF req.state = "present" /\ req.new_distributed_cg_name # None
            /\ c.details # NoDcgDetails THEN
        IF ~validate_name(req.new_distributed_cg_name)
        THEN fail_json(c, "input", "invalid new_distributed_cg_name")
        ELSE IF req.new_distributed_cg_name = c.details.name THEN c
        ELSE IF get_d_cgrp(c, req.new_distributed_cg_name) # NoDcgDetails
        THEN fail_json(c, "precondition", "New distributed consistency group name already exists")
        ELSE IF check_name_in_clusters(c, req.new_distributed_cg_name) # None
        THEN fail_json(c, "precondition", "Could not rename, already exists with same name in cluster")
        ELSE [c EXCEPT !.patch = Append(@, [op |-> "replace", path |-> "/name",
                                            value |-> req.new_distributed_cg_name])]
    ELSE c

\* DcgStepUpdate sending the patch even when nothing is planned
DcgStepUpdateAlways(c, req) ==
    IF c.status # "run" THEN c
    ELSE
        LET c1 == update_d_cgrp(c, req.distributed_cg_name, c.patch)
        IN  IF c1.status = "run" THEN [c1 EXCEPT !.status = "ok"] ELSE c1

\* perform_module_operation, lines 671-677: send the patch and report
DcgStepUpdate(c, req) ==
    IF c.status # "run" THEN c
    ELSE
        LET c1 == IF Len(c.patch) > 0
                  THEN update_d_cgrp(c, req.distributed_cg_name, c.patch) ELSE c
        IN  IF c1.status = "run" THEN [c1 EXCEPT !.status = "ok"] ELSE c1

\* the context an invocation of the module starts from
DcgStart ==
    [dcgrps |-> dcgrps, dvvs |-> dvvs, cgs |-> cgs, remote_cgs |-> remote_cgs,
     degraded |-> degraded,
     calls |-> <<>>, status |-> "run", kind |-> None, msg |-> None,
     changed |-> FALSE, details |-> NoDcgDetails, patch |-> <<>>]

\* VplexDistributedConsistencyGroup.perform_module_operation
DCG_perform_module_operation(req) ==
    DcgStepUpdate(DcgStepRename(DcgStepDetachRule(DcgStepAutoResume(DcgStepVolumes(
        DcgStepCreate(DcgStepResume(DcgStepDegraded(DcgStepDelete(DcgStart, req),
        req), req), req), req), req), req), req), req)

\* a request of the module
DcgRequest(name, new, vols, vst, dr, ar, ra, st) ==
    [distributed_cg_name |-> name, new_distributed_cg_name |-> new,
     distributed_virtual_volumes |-> vols, distributed_virtual_volume_state |-> vst,
     detach_rule |-> dr, auto_resume_at_loser |-> ar, resume_at |-> ra, state |-> st]

\* requests the argument spec admits: membership requests, rename
\* requests, and requests for the rule, the auto-resume flag and resume
DcgRequests ==
    {DcgRequest(n, None, vols, vst, None, None, None, st) :
        n \in {"dg1", "9dg"},
        vols \in SeqsUpTo(DvvNames \cup {"dvX"}, MaxDvList),
        vst \in {None, "present-in-cg", "absent-in-cg"},
        st \in {"present", "absent"}}
    \cup {DcgRequest("dg1", new, <<>>, None, None, ar, None, "present") :
            new \in {"dg1", "dg2", "dg3", "9dg"}, ar \in {None, "true"}}
    \cup {DcgRequest("dg1", None, <<>>, None, dr, ar, ra, "present") :
            dr \in {None, "no_automatic_winner", "cluster-1", "winner"},
            ar \in {None, "true", "false"},
            ra \in {None, "cluster-1", "cluster-9"}}

\* one run of the distributed consistency group module
DcgInvocation ==
    LET c == DCG_perform_module_operation(task)
    IN  /\ dcgrps' = c.dcgrps
        /\ dvvs' = c.dvvs
        /\ dcgs' = DistributedCgNames(c.dcgrps)
        /\ last' = Outcome("distributed_consistency_group", c,
                           c.dcgrps # dcgrps \/ c.dvvs # dvvs)
        /\ tick' = 1 - tick
        /\ fe_ports' = fe_ports
        /\ procs' = procs
        /\ UNCHANGED <<task, cgs, remote_cgs, vvols, migVars, vvVars, initVars, svVars, devVars,
                       degraded, ddevs>>

\* an existing distributed consistency group
Dcg(ar, dr, sus) ==
    [exists |-> TRUE, auto_resume_at_loser |-> ar, detach_rule |-> dr, suspended |-> sus]

\* an exported or unexported distributed virtual volume on a device
Dvv(svc, cg, dev) ==
    [exists |-> TRUE, service_status |-> svc, consistency_group |-> cg,
     supporting_device |-> dev, expansion_method |-> "storage-volume",
     expandable_capacity |-> 0, capacity |-> 10, locality |-> "distributed"]

\* appliance states the distributed consistency group module can meet
InitDCG ==
    /\ degraded \in {None, "cluster-2"}
    /\ dcgrps \in [DcgNames -> {NoDcg} \cup {Dcg(ar, dr, sus) :
                        ar \in BOOLEAN, dr \in {"no_automatic_winner", "cluster-1"},
                        sus \in BOOLEAN}]
    /\ dcgrps["dg3"] = NoDcg
    /\ dcgrps["dg2"] \in {NoDcg, Dcg(FALSE, "no_automatic_winner", FALSE)}
    /\ dvvs \in [DvvNames -> {Dvv("unexported", g, "DD1") : g \in {None, "dg1", "dg2"}}]
    /\ \A v \in DvvNames :
          dvvs[v].consistency_group # None => dcgrps[dvvs[v].consistency_group].exists
    /\ dcgrps["dg1"].suspended => DcgMembers(dvvs, "dg1") # {}
    /\ cgs \in {{}, {"dg3"}}
    /\ dcgs = DistributedCgNames(dcgrps)
    /\ remote_cgs = {}
    /\ vvols = [v \in VolNames |-> NoVol]
    /\ ddevs = [d \in DdNames |-> NoDdev]
    /\ task \in DcgRequests
    /\ jobs = [m \in MigNames |-> NoJob]
    /\ sobjs = [cl \in Clusters |-> [d \in ObjNames |-> NoObj]]
    /\ NoVvState
    /\ ports = NoPorts
    /\ NoSvState
    /\ NoDevState
    /\ last = NoOutcome
    /\ tick = 0
    /\ fe_ports = NoFePorts
    /\ procs = NoProcs

NextDCG == DcgInvocation

SpecDCG == InitDCG /\ [][NextDCG]_vars

----------------------------------------------------------------------------
(* Distributed device module *)

\* the rule sets of the appliance
RuleSets == {"cluster-1-detaches", "cluster-2-detaches"}

\* devices of the second cluster that requests name
RemoteDevNames == {"R1", "R2"}

\* a device of a cluster as is_device_present returns it; a device is top
\* level when it is no leg of another device
DdDevice(c, cluster_name, device_name) ==
    LET isleg == \/ \E d \in DOMAIN c.ddevs : c.ddevs[d].exists /\ device_name \in c.ddevs[d].legs
                 \/ \E d \in DOMAIN c.ldevs : c.ldevs[d].exists /\ device_name \in c.ldevs[d].mirrors
    IN  IF cluster_name = Cluster /\ device_name \in DOMAIN c.ldevs
           /\ c.ldevs[device_name].exists
        THEN [exists |-> TRUE, top_level |-> ~isleg,
              capacity |-> c.ldevs[device_name].capacity,
              virtual_volume |-> c.ldevs[device_name].virtual_volume]
        ELSE IF cluster_name # Cluster /\ device_name \in c.remote_devs
        THEN [exists |-> TRUE, top_level |-> ~isleg, capacity |-> RemoteCapacity,
              virtual_volume |-> None]
        ELSE [exists |-> FALSE, top_level |-> FALSE, capacity |-> 0, virtual_volume |-> None]

\* DistributedDevice.get_distributed_device
get_distributed_device(c, name) == DdevRecord(c.ddevs, name)

\* DistributedDevice.name_check_in_clusters: a cluster has a device of the name
name_check_in_clusters(c, dev_name) ==
    \E cl \in Clusters : DdDevice(c, cl, dev_name).exists

\* DistributedDevice.form_create_payload
form_create_payload(name, source_device, source_cluster, target_device, target_cluster, rule_set, sync) ==
    [name |-> name,
     primary_leg |-> <<source_cluster, "devices", source_device>>,
     secondary_leg |-> <<target_cluster, "devices", target_device>>,
     rule_set |-> rule_set, sync |-> sync]

\* DistributedDevice.create_distributed_device
create_distributed_device(c, req) ==
    LET dd_payload == form_create_payload(req.distributed_device_name, req.source_device,
                       req.source_cluster, req.target_device, req.target_cluster,
                       req.rule_set, req.sync)
        called == [c EXCEPT !.calls = Append(@, Call("create", req.distributed_device_name,
                                                     dd_payload))]
        name == req.distributed_device_name
    IN  IF name \notin DOMAIN c.ddevs \/ c.ddevs[name].exists
        THEN fail_json(called, "remote", "Could not create the distributed device")
        ELSE LET dds == [c.ddevs EXCEPT ![name] =
                            [exists |-> TRUE, virtual_volume |-> None,
                             rebuild_status |-> "done",
                             rule_set_name |-> IF req.rule_set = None
                                               THEN "cluster-1-detaches" ELSE req.rule_set,
                             legs |-> {req.source_device, req.target_device},
                             capacity |-> DdDevice(c, req.source_cluster,
                                                   req.source_device).capacity]]
             IN  [called EXCEPT !.ddevs = dds, !.details = DdevRecord(dds, name),
                                !.changed = TRUE]

\* the appliance applying one patch operation to a distributed device; w
\* holds the devices, the volumes and the device's name
ApplyDdOp(w, op) ==
    IF op.path = "/rule_set_name" THEN
        [w EXCEPT !.ddevs[w.name].rule_set_name = op.value]
    ELSE
        [ddevs |-> [d \in DOMAIN w.ddevs |->
                        IF d = op.value THEN w.ddevs[w.name]
                        ELSE IF d = w.name THEN NoDdev ELSE w.ddevs[d]],
         dvvs |-> [v \in DOMAIN w.dvvs |->
                        IF w.dvvs[v].exists /\ w.dvvs[v].supporting_device = w.name
                        THEN [w.dvvs[v] EXCEPT !.supporting_device = op.value]
                        ELSE w.dvvs[v]],
         name |-> op.value]

\* the appliance applying the operations of a patch in order
RECURSIVE ApplyDdOps(_, _, _)
ApplyDdOps(w, patch, i) ==
    IF i > Len(patch) THEN w ELSE ApplyDdOps(ApplyDdOp(w, patch[i]), patch, i + 1)

\* DistributedDevice.update_distributed_device
update_distributed_device(c, name, patch) ==
    LET called == [c EXCEPT !.calls = Append(@, Call("patch", name, patch))]
        w == ApplyDdOps([ddevs |-> c.ddevs, dvvs |-> c.dvvs, name |-> name], patch, 1)
    IN  [called EXCEPT !.ddevs = w.ddevs, !.dvvs = w.dvvs,
                       !.details = DdevRecord(w.ddevs, w.name),
                       !.changed = TRUE]

\* DistributedDevice.delete_distributed_device; whether the appliance
\* deletes a device that carries a virtual volume is its choice (accepts)
delete_distributed_device(c, name) ==
    LET called == [c EXCEPT !.calls = Append(@, Call("delete", name, <<>>))]
    IN  IF c.ddevs[name].virtual_volume # None /\ ~c.accepts
        THEN fail_json(called, "remote", "Could not delete the distributed device")
        ELSE [called EXCEPT !.ddevs[name] = NoDdev,
                            !.dvvs = [v \in DOMAIN c.dvvs |->
                                        IF c.dvvs[v].exists /\ c.dvvs[v].supporting_device = name
                                        THEN [c.dvvs[v] EXCEPT !.supporting_device = None]
                                        ELSE c.dvvs[v]],
                            !.details = NoDistDetails,
                            !.changed = TRUE]

\* DistributedDevice.check_for_dcg: the device's virtual volume is in a
\* distributed consistency group
check_for_dcg(c, name) ==
    LET vol == c.ddevs[name].virtual_volume
    IN  IF vol # None /\ vol \in DOMAIN c.dvvs
           /\ \E g \in DOMAIN c.dcgrps :
                 c.dcgrps[g].exists /\ c.dvvs[vol].consistency_group = g
        THEN fail_json(c, "precondition",
                       "its virtual volume is in consistency group")
        ELSE c

\* DistributedDevice.check_for_dvv: the device's virtual volume is exported
check_for_dvv(c, name) ==
    LET vol == c.ddevs[name].virtual_volume
    IN  IF c.status # "run" THEN c
        ELSE IF vol # None /\ vol \in DOMAIN c.dvvs
                /\ c.dvvs[vol].service_status # "unexported"
        THEN fail_json(c, "precondition", "it has an exported virtual volume")
        ELSE c

\* DistributedDevice.check_rebuilding_status
check_rebuilding_status(c, name) ==
    IF c.status # "run" THEN c
    ELSE IF c.ddevs[name].rebuild_status # "done"
    THEN fail_json(c, "precondition", "it is in rebuilding state")
    ELSE c

\* DistributedDevice.check_dev_in_dd
check_dev_in_dd(c, name, device) ==
    IF c.status # "run" THEN c
    ELSE IF device \notin c.ddevs[name].legs
    THEN fail_json(c, "precondition",
                   "a distributed device already exists with different source target combination")
    ELSE c

\* DistributedDevice.create_dd_checks
create_dd_checks(c, req) ==
    LET src == DdDevice(c, req.source_cluster, req.source_device)
        tgt == DdDevice(c, req.target_cluster, req.target_device)
        no(msg) == fail_json(c, "precondition", msg)
    IN  IF name_check_in_clusters(c, req.distributed_device_name)
        THEN no("a device already exists with same name")
        ELSE IF req.source_cluster \notin Clusters \/ req.target_cluster \notin Clusters
        THEN fail_json(c, "input", "Could not find resource cluster")
        ELSE IF req.source_cluster = req.target_cluster
        THEN no("source cluster and target cluster should not be same")
        ELSE IF ~validate_name(req.source_device) \/ ~validate_name(req.target_device)
        THEN fail_json(c, "input", "invalid device name")
        ELSE IF ~src.exists THEN no("the source device is not found")
        ELSE IF ~tgt.exists THEN no("the target device is not found")
        ELSE IF req.source_device = req.target_device
        THEN no("source device and target device should not be same")
        ELSE IF ~src.top_level THEN no("source device is not top level device")
        ELSE IF ~tgt.top_level THEN no("target device is not top level device")
        ELSE IF src.capacity > tgt.capacity
        THEN no("source device capacity is greater than target device capacity")
        ELSE IF src.virtual_volume # None THEN no("source device has a virtual volume")
        ELSE IF tgt.virtual_volume # None THEN no("target device has a virtual volume")
        ELSE c

\* perform_module_operation, lines 598-611: validate the name and fetch
DdStepStart(c, req) ==
    IF ~validate_name(req.distributed_device_name)
    THEN fail_json(c, "input", "invalid distributed_device_name")
    ELSE [c EXCEPT !.details = get_distributed_device(c, req.distributed_device_name),
                   !.dd_found = (get_distributed_device(c, req.distributed_device_name)
                                 # NoDistDetails)]

\* perform_module_operation, lines 612-639: with a degraded cluster only
\* a get of an existing device and the deletion of a missing one go on
DdStepDegraded(c, req) ==
    IF c.status # "run" \/ c.degraded = None THEN c
    ELSE IF req.state = "absent" THEN
        IF ~c.dd_found THEN [c EXCEPT !.status = "ok"]
        ELSE fail_json(c, "precondition", "Could not delete, cluster is in degraded state")
    ELSE IF c.dd_found THEN
        IF \/ req.source_device # None /\ req.target_device # None
           \/ req.rule_set # None
           \/ req.new_distributed_device_name # None
        THEN fail_json(c, "precondition",
                       "Could not perform the operation, cluster is in degraded state")
        ELSE [c EXCEPT !.status = "ok"]
    ELSE fail_json(c, "remote", "Could not get the distributed device")

\* perform_module_operation, lines 640-651: delete
DdStepDelete(c, req) ==
    IF c.status # "run" THEN c
    ELSE IF req.state = "absent" /\ c.dd_found THEN
        LET name == req.distributed_device_name
            checked == check_rebuilding_status(check_for_dvv(check_for_dcg(c, name), name),
                                               name)
        IN  IF checked.status # "run" THEN checked
            ELSE delete_distributed_device(checked, name)
    ELSE c

\* perform_module_operation, lines 652-661: the named legs of an
\* existing device
DdStepLegs(c, req) ==
    IF c.status # "run" THEN c
    ELSE IF req.state = "present" /\ c.dd_found THEN
        LET c1 == IF req.source_device # None
                  THEN check_dev_in_dd(c, req.distributed_device_name, req.source_device)
                  ELSE c
        IN  IF req.target_device # None
            THEN check_dev_in_dd(c1, req.distributed_device_name, req.target_device)
            ELSE c1
    ELSE c

\* perform_module_operation, lines 662-702: create
DdStepCreate(c, req) ==
    IF c.status # "run" THEN c
    ELSE IF req.state = "present" /\ ~c.dd_found THEN
        IF /\ req.source_cluster # None /\ req.source_device # None
           /\ req.target_cluster # None /\ req.target_device # None
        THEN
            IF req.new_distributed_device_name # None
            THEN fail_json(c, "precondition",
                           "Could not perform create and rename in a single task")
            ELSE LET checked == create_dd_checks(c, req)
                 IN  IF checked.status # "run" THEN checked
                     ELSE IF req.rule_set # None /\ req.rule_set \notin RuleSets
                     THEN fail_json(c, "input", "rule_set should be one of the rule sets")
                     ELSE create_distributed_device(c, req)
        ELSE fail_json(c, "remote", "Could not get the distributed device")
    ELSE c

\* perform_module_operation, lines 703-727: plan the rule set
DdStepRuleSet(c, req) ==
    IF c.status # "run" THEN c
    ELSE IF req.state = "present" /\ req.rule_set # None /\ c.details # NoDistDetails THEN
        LET checked == check_for_dcg(c, c.details.name)
        IN  IF checked.status # "run" THEN checked
            ELSE IF req.rule_set \notin RuleSets
            THEN fail_json(c, "input", "rule_set should be one of the rule sets")
            ELSE IF c.details.rule_set_name = req.rule_set THEN c
            ELSE [c EXCEPT !.patch = Append(@, [op |-> "replace", path |-> "/rule_set_name",
                                                value |-> req.rule_set])]
    ELSE c

\* perform_module_operation, lines 728-765: plan the rename
DdStepRename(c, req) ==
    IF c.status # "run" THEN c
    ELSE IF req.state = "present" /\ req.new_distributed_device_name # None THEN
        IF ~validate_name(req.new_distributed_device_name)
        THEN fail_json(c, "input", "invalid new_distributed_device_name")
        ELSE IF name_check_in_clusters(c, req.new_distributed_device_name)
        THEN fail_json(c, "precondition", "Could not rename, the name already exists in cluster")
        ELSE IF c.details.name = req.new_distributed_device_name THEN c
        ELSE IF get_distributed_device(c, req.new_distributed_device_name) # NoDistDetails
        THEN fail_json(c, "precondition",
                       "Could not rename, new distributed device name already exists")
        ELSE [c EXCEPT !.patch = Append(@, [op |-> "replace", path |-> "/name",
                                            value |-> req.new_distributed_device_name])]
    ELSE c

\* perform_module_operation, lines 766-780: send the patch and report
DdStepUpdate(c, req) ==
    IF c.status # "run" THEN c
    ELSE
        LET c1 == IF Len(c.patch) > 0
                  THEN update_distributed_device(c, req.distributed_device_name, c.patch)
                  ELSE c
        IN  IF c1.status = "run" THEN [c1 EXCEPT !.status = "ok"] ELSE c1

\* the context an invocation of the module starts from
DdStart(accepts) ==
    [ddevs |-> ddevs, dvvs |-> dvvs, dcgrps |-> dcgrps, ldevs |-> ldevs,
     remote_devs |-> remote_devs, degraded |-> degraded, accepts |-> accepts,
     calls |-> <<>>, status |-> "run", kind |-> None, msg |-> None,
     changed |-> FALSE, details |-> NoDistDetails, dd_found |-> FALSE, patch |-> <<>>]

\* DistributedDevice.perform_module_operation
DD_perform_module_operation(req, accepts) ==
    DdStepUpdate(DdStepRename(DdStepRuleSet(DdStepCreate(DdStepLegs(DdStepDelete(
        DdStepDegraded(DdStepStart(DdStart(accepts), req), req), req), req), req), req),
        req), req)

\* a request of the module
DdRequest(name, new, sc, sd, tc, td, rule, st) ==
    [distributed_device_name |-> name, new_distributed_device_name |-> new,
     source_cluster |-> sc, source_device |-> sd,
     target_cluster |-> tc, target_device |-> td,
     rule_set |-> rule, sync |-> None, state |-> st]

\* requests the argument spec admits: plain get and delete, create and
\* get with legs and rule set, rename
DdRequests ==
    {DdRequest(n, None, None, None, None, None, None, st) :
        n \in {"DD1", "9dd"}, st \in {"present", "absent"}}
    \cup {DdRequest("DD1", None, sc, sd, tc, td, rule, "present") :
            sc \in {None, "cluster-1"}, sd \in {None, "L1", "L2", "LX"},
            tc \in {None, "cluster-2", "cluster-1"}, td \in {None, "R1", "RX"},
            rule \in {None, "cluster-2-detaches", "bad-rule"}}
    \cup {DdRequest("DD1", new, None, None, None, None, rule, "present") :
            new \in {"DD1", "DD2", "L1", "9dd"}, rule \in {None, "cluster-2-detaches"}}

\* one run of the distributed device module
DdInvocation ==
    \E accepts \in BOOLEAN :
        LET c == DD_perform_module_operation(task, accepts)
        IN  /\ ddevs' = c.ddevs
            /\ dvvs' = c.dvvs
            /\ last' = Outcome("distributed_device", c, c.ddevs # ddevs \/ c.dvvs # dvvs)
            /\ tick' = 1 - tick
            /\ fe_ports' = fe_ports
            /\ procs' = procs
            /\ UNCHANGED <<task, cgVars, vvols, migVars, vvVars, initVars, svVars, devVars,
                           degraded, dcgrps>>

\* appliance states the distributed device module can meet: DD1 absent or
\* on the legs L1 and R1, with or without a virtual volume dv1; a local
\* device may have the name DD1 while no distributed device has it
InitDD ==
    /\ task \in DdRequests
    /\ degraded \in {None, "cluster-2"}
    /\ remote_devs \in {{"R1"}, {"R1", "R2"}}
    /\ \E dd \in {NoDdev} \cup {Ddev(vol, reb, "cluster-1-detaches", {"L1", "R1"}) :
                                  vol \in {None, "dv1"}, reb \in {"done", "rebuilding"}},
          a \in {Ldev("raid-1", FALSE, v, cap, {}) : v \in {None, "v1"}, cap \in {1, 3}},
          b \in {NoLdev, Ldev("raid-1", FALSE, None, 1, {})},
          l \in {NoLdev, Ldev("raid-1", FALSE, None, 1, {})},
          vv \in {Dvv(svc, g, "DD1") : svc \in {"unexported", "running"},
                                        g \in {None, "dg1"}} :
         /\ dd.exists => a.virtual_volume = None
         /\ dd.exists => ~l.exists
         /\ ddevs = [d \in DdNames |-> IF d = "DD1" THEN dd ELSE NoDdev]
         /\ ldevs = [d \in LdevNames |-> IF d = "L1" THEN a ELSE IF d = "L2" THEN b
                                         ELSE IF d = "DD1" THEN l ELSE NoLdev]
         /\ dvvs = [v \in DvvNames |-> IF v = "dv1" /\ dd.virtual_volume = "dv1"
                                       THEN vv ELSE NoDvv]
    /\ dcgrps = [g \in DcgNames |->
                    IF g = "dg1" /\ dvvs["dv1"].consistency_group = "dg1"
                    THEN Dcg(FALSE, "no_automatic_winner", FALSE) ELSE NoDcg]
    /\ extents = [e \in ExtNames |-> NoExt]
    /\ cgs = {}
    /\ dcgs = DistributedCgNames(dcgrps)
    /\ remote_cgs = {}
    /\ vvols = [v \in VolNames |-> NoVol]
    /\ jobs = [m \in MigNames |-> NoJob]
    /\ sobjs = [cl \in Clusters |-> [d \in ObjNames |-> NoObj]]
    /\ devices = NoDevices
    /\ dist_vols = {}
    /\ remote_vols = {}
    /\ vplex_version = 6
    /\ directors_ok = TRUE
    /\ ports = NoPorts
    /\ NoSvState
    /\ last = NoOutcome
    /\ tick = 0
    /\ fe_ports = NoFePorts
    /\ procs = NoProcs

NextDD == DdInvocation

SpecDD == InitDD /\ [][NextDD]_vars

----------------------------------------------------------------------------
(* Distributed virtual volume module *)

\* the system id of the distributed virtual volume on a distributed device
DvvSystemId(dev) ==
    IF dev = "DD1" THEN "id-DD1" ELSE IF dev = "DD2" THEN "id-DD2" ELSE None

\* the name the appliance gives a volume created on a distributed device
DvvDefaultName(dev) ==
    IF dev = "DD1" THEN "DD1_vol" ELSE IF dev = "DD2" THEN "DD2_vol" ELSE "DX_vol"

\* no distributed virtual volume details (dist_vv_details is None)
NoDvvDetails ==
    [name |-> None, service_status |-> None, consistency_group |-> None,
     supporting_device |-> None, expansion_method |-> None,
     expandable_capacity |-> 0, capacity |-> 0]

\* the record the appliance returns for a distributed virtual volume
DvvRecord(vols, name) ==
    IF name \in DOMAIN vols /\ vols[name].exists
    THEN [name |-> name, service_status |-> vols[name].service_status,
          consistency_group |-> vols[name].consistency_group,
          supporting_device |-> vols[name].supporting_device,
          expansion_method |-> vols[name].expansion_method,
          expandable_capacity |-> vols[name].expandable_capacity,
          capacity |-> vols[name].capacity]
    ELSE NoDvvDetails

\* VplexDistributedVirtualVolume.get_distributed_vv
get_distributed_vv(c, dist_vv_name) == DvvRecord(c.dvvs, dist_vv_name)

\* VplexDistributedVirtualVolume.get_dist_vv_by_id
get_dist_vv_by_id(c, dist_vv_id) ==
    LET data == {v \in DOMAIN c.dvvs :
                    c.dvvs[v].exists /\ DvvSystemId(c.dvvs[v].supporting_device) = dist_vv_id}
    IN  IF data # {} THEN DvvRecord(c.dvvs, CHOOSE v \in data : TRUE) ELSE NoDvvDetails

\* VplexDistributedVirtualVolume.check_name_existence: a cluster has a
\* virtual volume of the name
check_name_existence(c, name) ==
    \/ name \in DOMAIN c.vvols /\ c.vvols[name].exists
    \/ name \in c.remote_vols

\* VplexDistributedVirtualVolume.delete_distributed_vv
delete_distributed_vv(c, name) ==
    LET called == [c EXCEPT !.calls = Append(@, Call("delete", name, <<>>))]
        dev == c.dvvs[name].supporting_device
    IN  [called EXCEPT !.dvvs[name] = NoDvv,
                       !.ddevs = [d \in DOMAIN c.ddevs |->
                                    IF d = dev THEN [c.ddevs[d] EXCEPT !.virtual_volume = None]
                                    ELSE c.ddevs[d]],
                       !.details = NoDvvDetails,
                       !.changed = TRUE]

\* VplexDistributedVirtualVolume.create_distributed_vv followed by
\* rename_distributed_vv (lines 727-738): the volume gets the default
\* name and is renamed when another name was asked for
create_distributed_vv(c, dev, name, thin) ==
    LET created == [c EXCEPT !.calls = Append(@, Call("create", dev,
                                                      [device |-> dev, thin |-> thin]))]
        called == IF DvvDefaultName(dev) # name
                  THEN [created EXCEPT !.calls = Append(@, Call("patch", DvvDefaultName(dev),
                            <<[op |-> "replace", path |-> "/name", value |-> name]>>))]
                  ELSE created
    IN  IF name \notin DOMAIN c.dvvs \/ c.dvvs[name].exists
        THEN fail_json(created, "remote", "Could not create distributed virtual volume")
        ELSE LET vols == [c.dvvs EXCEPT ![name] =
                             [exists |-> TRUE, service_status |-> "unexported",
                              consistency_group |-> None, supporting_device |-> dev,
                              expansion_method |-> "storage-volume",
                              expandable_capacity |-> 0,
                              capacity |-> c.ddevs[dev].capacity,
                              locality |-> "distributed"]]
             IN  [called EXCEPT !.dvvs = vols,
                                !.ddevs[dev].virtual_volume = name,
                                !.details = DvvRecord(vols, name),
                                !.changed = TRUE]

\* VplexDistributedVirtualVolume.rename_distributed_vv
rename_distributed_vv(c, name, new_name) ==
    LET called == [c EXCEPT !.calls = Append(@, Call("patch", name,
                       <<[op |-> "replace", path |-> "/name", value |-> new_name]>>))]
        dev == c.dvvs[name].supporting_device
    IN  IF new_name \notin DOMAIN c.dvvs \/ c.dvvs[new_name].exists
        THEN fail_json(called, "remote", "Could not rename distributed virtual volume")
        ELSE LET vols == [v \in DOMAIN c.dvvs |->
                             IF v = new_name THEN c.dvvs[name]
                             ELSE IF v = name THEN NoDvv ELSE c.dvvs[v]]
             IN  [called EXCEPT !.dvvs = vols,
                                !.ddevs = [d \in DOMAIN c.ddevs |->
                                             IF d = dev
                                             THEN [c.ddevs[d] EXCEPT !.virtual_volume = new_name]
                                             ELSE c.ddevs[d]],
                                !.details = DvvRecord(vols, new_name),
                                !.changed = TRUE]

\* VplexDistributedVirtualVolume.expand_distributed_vv and lines 806-812:
\* changed is reported when the capacity grew
expand_distributed_vv(c, name, skip_init) ==
    LET called == [c EXCEPT !.calls = Append(@, Call("expand", name, skip_init))]
        vols == [c.dvvs EXCEPT ![name].capacity = @ + c.dvvs[name].expandable_capacity,
                               ![name].expandable_capacity = 0]
    IN  [called EXCEPT !.dvvs = vols,
                       !.details = DvvRecord(vols, name),
                       !.changed = (c.changed \/ c.dvvs[name].capacity < vols[name].capacity)]

\* perform_module_operation, lines 576-598: fetch the volume by id or by
\* name; a request has to name a volume or a distributed device
DvvStepGet(c, req) ==
    LET byid == get_dist_vv_by_id(c, req.distributed_virtual_volume_id)
        c1 == IF req.distributed_virtual_volume_id # None
              THEN [c EXCEPT !.details = byid,
                             !.name = IF byid # NoDvvDetails THEN byid.name
                                      ELSE req.distributed_virtual_volume_name]
              ELSE IF req.distributed_virtual_volume_name # None
              THEN [c EXCEPT !.details = get_distributed_vv(c, req.distributed_virtual_volume_name),
                             !.name = req.distributed_virtual_volume_name]
              ELSE c
    IN  IF req.state = "present" /\ req.distributed_device_name = None
           /\ c1.details = NoDvvDetails
        THEN fail_json(c1, "precondition", "Could not find distributed virtual volume")
        ELSE c1

\* DvvStepDelete without the test of the consistency group
DvvStepDeleteInGroup(c, req) ==
    IF c.status # "run" THEN c
    ELSE IF req.state = "absent" THEN
        IF c.details = NoDvvDetails THEN [c EXCEPT !.status = "ok"]
        ELSE IF c.degraded # None
        THEN fail_json(c, "precondition", "Could not delete since the cluster is degraded")
        ELSE IF c.details.service_status # "unexported"
        THEN fail_json(c, "precondition", "Could not delete since it is exported to storage view")
        ELSE delete_distributed_vv(c, c.name)
    ELSE c

\* perform_module_operation, lines 600-635: delete
DvvStepDelete(c, req) ==
    IF c.status # "run" THEN c
    ELSE IF req.state = "absent" THEN
        IF c.details = NoDvvDetails THEN [c EXCEPT !.status = "ok"]
        ELSE IF c.degraded # None
        THEN fail_json(c, "precondition", "Could not delete since the cluster is degraded")
        ELSE IF c.details.service_status # "unexported"
        THEN fail_json(c, "precondition", "Could not delete since it is exported to storage view")
        ELSE IF c.details.consistency_group # None
        THEN fail_json(c, "precondition",
                       "Could not delete since it is added to the distributed consistency group")
        ELSE delete_distributed_vv(c, c.name)
    ELSE c

\* perform_module_operation, lines 637-738: create the volume on a
\* distributed device
DvvStepCreate(c, req) ==
    IF c.status # "run" THEN c
    ELSE IF req.state = "present" /\ req.distributed_device_name # None THEN
        LET dev == req.distributed_device_name
            dd == DdevRecord(c.ddevs, dev)
            no(msg) == fail_json(c, "precondition", msg)
        IN  IF req.new_distributed_virtual_volume_name # None
            THEN no("Could not perform create and rename in a single task")
            ELSE IF req.distributed_virtual_volume_id # None
            THEN fail_json(c, "input", "Could not perform create operation with id")
            ELSE IF check_name_existence(c, c.name)
            THEN no("Could not create, the name is already used in a cluster")
            ELSE IF dd = NoDistDetails
            THEN no("Could not find the distributed device")
            ELSE IF dd.virtual_volume = None /\ c.details # NoDvvDetails
            THEN no("already created on top of another distributed device")
            ELSE IF dd.virtual_volume # None /\ dd.virtual_volume # c.name
            THEN no("the distributed device already contains a distributed virtual volume")
            ELSE IF dd.virtual_volume # None
            THEN [c EXCEPT !.details = get_distributed_vv(c, dd.virtual_volume)]
            ELSE IF c.degraded # None
            THEN no("Could not create since the cluster is degraded")
            ELSE IF dd.rebuild_status \in {"rebuilding", "queued"} /\ req.wait_for_rebuild
            THEN no("Could not create as distributed device is rebuilding")
            ELSE IF check_name_existence(c, DvvDefaultName(dev))
            THEN no("Could not create, the default name is already used in a cluster")
            ELSE IF c.name = None \/ ~validate_name(c.name)
            THEN fail_json(c, "input", "invalid distributed_virtual_volume_name")
            ELSE create_distributed_vv(c, dev, c.name, req.thin_enable)
    ELSE c

\* perform_module_operation, lines 740-783: rename
DvvStepRename(c, req) ==
    IF c.status # "run" THEN c
    ELSE IF req.state = "present" /\ c.details # NoDvvDetails
            /\ req.new_distributed_virtual_volume_name # None THEN
        LET new == req.new_distributed_virtual_volume_name
        IN  IF c.details.name = new THEN c
            ELSE IF check_name_existence(c, new)
            THEN fail_json(c, "precondition", "Could not rename, the name is already used in a cluster")
            ELSE IF get_distributed_vv(c, new) # NoDvvDetails
            THEN fail_json(c, "precondition", "Could not rename, the new name is already present")
            ELSE IF c.degraded # None
            THEN fail_json(c, "precondition", "Could not rename since the cluster is degraded")
            ELSE IF ~validate_name(new)
            THEN fail_json(c, "input", "invalid new_distributed_virtual_volume_name")
            ELSE rename_distributed_vv(c, c.details.name, new)
    ELSE c

\* perform_module_operation, lines 785-815: expand and report
DvvStepExpand(c, req) ==
    IF c.status # "run" THEN c
    ELSE
        LET c1 == IF req.state = "present" /\ c.details # NoDvvDetails /\ req.expand THEN
                      IF c.details.expansion_method = "not-supported" THEN c
                      ELSE IF c.details.expandable_capacity = 0 THEN c
                      ELSE IF c.degraded # None
                      THEN fail_json(c, "precondition",
                                     "Could not expand since the cluster is degraded")
                      ELSE expand_distributed_vv(c, c.details.name, req.expand)
                  ELSE c
        IN  IF c1.status = "run" THEN [c1 EXCEPT !.status = "ok"] ELSE c1

\* the context an invocation of the module starts from
DvvStart ==
    [dvvs |-> dvvs, ddevs |-> ddevs, vvols |-> vvols, remote_vols |-> remote_vols,
     degraded |-> degraded, name |-> None,
     calls |-> <<>>, status |-> "run", kind |-> None, msg |-> None,
     changed |-> FALSE, details |-> NoDvvDetails]

\* VplexDistributedVirtualVolume.perform_module_operation
DVV_perform_module_operation(req) ==
    DvvStepExpand(DvvStepRename(DvvStepCreate(DvvStepDelete(DvvStepGet(DvvStart, req),
        req), req), req), req)

\* a request of the module
DvvRequest(name, id, dev, new, expand, wait, st) ==
    [distributed_virtual_volume_name |-> name, distributed_virtual_volume_id |-> id,
     distributed_device_name |-> dev, new_distributed_virtual_volume_name |-> new,
     expand |-> expand, wait_for_rebuild |-> wait, thin_enable |-> TRUE, state |-> st]

\* requests the argument spec admits: get, expand and delete by name or
\* id, create on a distributed device, rename
DvvRequests ==
    {DvvRequest(n, id, None, None, ex, TRUE, st) :
        n \in {None, "dv1", "9dv"}, id \in {None, "id-DD1", "id-DD2"},
        ex \in BOOLEAN, st \in {"present", "absent"}}
    \cup {DvvRequest(n, None, dev, new, FALSE, w, "present") :
            n \in {"dv1", "dv2", "9dv"}, dev \in {"DD1", "DD2", "DX"},
            new \in {None, "dv2"}, w \in BOOLEAN}
    \cup {DvvRequest("dv1", None, None, new, ex, TRUE, "present") :
            new \in {"dv1", "dv2", "9dv"}, ex \in BOOLEAN}

\* one run of the distributed virtual volume module
DvvInvocation ==
    LET c == DVV_perform_module_operation(task)
    IN  /\ dvvs' = c.dvvs
        /\ ddevs' = c.ddevs
        /\ last' = Outcome("distributed_virtual_volume", c, c.dvvs # dvvs \/ c.ddevs # ddevs)
        /\ tick' = 1 - tick
        /\ fe_ports' = fe_ports
        /\ procs' = procs
        /\ UNCHANGED <<task, cgVars, vvols, migVars, vvVars, initVars, svVars, devVars,
                       degraded, dcgrps>>

\* a distributed virtual volume with the given expansion method and
\* expandable capacity
DvvOf(svc, cg, dev, method, expcap) ==
    [Dvv(svc, cg, dev) EXCEPT !.expansion_method = method, !.expandable_capacity = expcap]

\* appliance states the distributed virtual volume module can meet: the
\* volume dv1 on DD1 when DD1 has one, dv2 on DD2 likewise
InitDVV ==
    /\ task \in DvvRequests
    /\ degraded \in {None, "cluster-2"}
    /\ remote_vols \in {{}, {"dv2"}, {"DD1_vol"}}
    /\ \E d1 \in {NoDdev, Ddev(None, "done", "cluster-1-detaches", {"L1", "R1"}),
                  Ddev(None, "rebuilding", "cluster-1-detaches", {"L1", "R1"}),
                  Ddev("dv1", "done", "cluster-1-detaches", {"L1", "R1"})},
          d2 \in {NoDdev, Ddev(None, "done", "cluster-1-detaches", {"L2", "R2"}),
                  Ddev("dv2", "done", "cluster-1-detaches", {"L2", "R2"})},
          v1 \in {DvvOf(svc, g, "DD1", m[1], m[2]) :
                    svc \in {"unexported", "running"}, g \in {None, "dg1"},
                    m \in {<<"storage-volume", 0>>, <<"storage-volume", 5>>,
                           <<"not-supported", 5>>}} :
         /\ ddevs = [d \in DdNames |-> IF d = "DD1" THEN d1 ELSE d2]
         /\ dvvs = [v \in DvvNames |->
                      IF v = "dv1" /\ d1.virtual_volume = "dv1" THEN v1
                      ELSE IF v = "dv2" /\ d2.virtual_volume = "dv2"
                      THEN Dvv("unexported", None, "DD2")
                      ELSE NoDvv]
         /\ "dv2" \in remote_vols => d2.virtual_volume = None
    /\ dcgrps = [g \in DcgNames |->
                    IF g = "dg1" /\ dvvs["dv1"].consistency_group = "dg1"
                    THEN Dcg(FALSE, "no_automatic_winner", FALSE) ELSE NoDcg]
    /\ NoDevState
    /\ cgs = {}
    /\ dcgs = DistributedCgNames(dcgrps)
    /\ remote_cgs = {}
    /\ vvols = [v \in VolNames |-> NoVol]
    /\ jobs = [m \in MigNames |-> NoJob]
    /\ sobjs = [cl \in Clusters |-> [d \in ObjNames |-> NoObj]]
    /\ devices = NoDevices
    /\ dist_vols = {}
    /\ remote_devs = {}
    /\ vplex_version = 6
    /\ directors_ok = TRUE
    /\ ports = NoPorts
    /\ NoSvState
    /\ last = NoOutcome
    /\ tick = 0
    /\ fe_ports = NoFePorts
    /\ procs = NoProcs

NextDVV == DvvInvocation

SpecDVV == InitDVV /\ [][NextDVV]_vars

----------------------------------------------------------------------------
(* Properties *)

\* the remote calls that change the appliance; rediscover, like get and
\* list, is counted as a read
MutatingOps == {"create", "delete", "patch", "patch_device", "expand",
                "cache_invalidate", "register", "unregister"}

\* the mutating calls of a call log, in order
Mutations(calls) == SelectSeq(calls, LAMBDA k : k.op \in MutatingOps)

\* C1: applying the same request twice in succession reports changed=true at
\* most once: after a successful invocation, the next invocation of the same
\* request succeeds, reports changed=false and returns the same record.
C1_SecondRunUnchanged ==
    [][last.status = "ok" =>
          (last'.status = "ok" /\ ~last'.changed /\ last'.details = last.details)]_vars

\* the request of C2: state=present, one requested volume, present-in-cg, no
\* rename, on a group that exists and already contains the volume
C2_Case ==
    /\ task.state = "present"
    /\ task.new_cg_name = None
    /\ task.virtual_volume_state = "present-in-cg"
    /\ Len(task.virtual_volumes) = 1
    /\ task.cg_name \in cgs
    /\ task.virtual_volumes[1] \in VolNames
    /\ vvols[task.virtual_volumes[1]].consistency_group = task.cg_name

\* C2: the consistency group module run with state=present, one volume and
\* present-in-cg on a group that exists and already contains the volume
\* issues no remote call, reports changed=false and leaves groups and
\* volumes as they are; when the volume is local the run succeeds and
\* returns the group as it is.
C2_AlreadyMemberNoCall ==
    [][C2_Case =>
          /\ last'.calls = <<>>
          /\ ~last'.changed
          /\ cgs' = cgs /\ vvols' = vvols
          /\ (vvols[task.virtual_volumes[1]].visibility = "local" =>
                /\ last'.status = "ok"
                /\ last'.details = CgRecord(cgs, vvols, task.cg_name))]_vars

\* a run of the C2 request has succeeded without a call
C2_Witness ==
    /\ C2_Case
    /\ last.module = "consistency_group"
    /\ last.status = "ok"
    /\ last.calls = <<>>
    /\ task.virtual_volumes[1] \in last.details.virtual_volumes

\* C3: the reported changed flag is true exactly when the invocation has
\* executed at least one mutating remote call.
C3_ChangedIffMutated ==
    last.module # None => (last.changed <=> Mutations(last.calls) # <<>>)

\* C4: an invocation that ends in a precondition failure has issued no
\* mutating call and has left the appliance as it was.
C4_PreconditionFailureBeforeMutation ==
    (last.status = "failed" /\ last.kind = "precondition") =>
        (Mutations(last.calls) = <<>> /\ ~last.appChanged)

\* playbooks of consistency group tasks and of data migration tasks
InitCGMig == InitCG \/ InitMig

NextCGMig ==
    \/ "cg_name" \in DOMAIN task /\ CgInvocation
    \/ "migration_name" \in DOMAIN task /\ MigInvocation

SpecCGMig == InitCGMig /\ [][NextCGMig]_vars

\* the patch calls of a call log, in order
PatchCalls(calls) == SelectSeq(calls, LAMBDA k : k.op = "patch")

SendsStatusPatch(calls) ==
    \E j \in 1..Len(calls) :
        /\ calls[j].op = "patch"
        /\ \E i \in 1..Len(calls[j].val) : calls[j].val[i].path = "/status"

\* the task asks for a status on a job the appliance has
C6_Case ==
    /\ task.migration_name \in MigNames
    /\ jobs[task.migration_name] # NoJob
    /\ task.status # None

\* C6 as stated: a status patch is sent only if the requested status is in
\* the allow-list of the job's status, and whenever it is not, the
\* invocation fails and sends no patch.
C6_NotAllowedAlwaysFails ==
    [][C6_Case =>
          LET s == jobs[task.migration_name].status
          IN  /\ SendsStatusPatch(last'.calls) => task.status \in operations(s)
              /\ task.status \notin operations(s) =>
                    (last'.status = "failed" /\ ~SendsStatusPatch(last'.calls))]_vars

\* C6, amended: a status patch is sent only if the requested status is in
\* the allow-list of the job's status s (for a job the invocation creates,
\* in the allow-list of the status the appliance starts it in); when it is
\* not in the allow-list and s is not already the status the request leads
\* to, the invocation fails, sends no patch and leaves the job as it is; in
\* particular commit on a queued job fails.
C6_StatusPatchOnlyIfAllowed ==
    [][task.migration_name \in MigNames /\ task.status # None =>
          LET job == jobs[task.migration_name]
              s == job.status
          IN  /\ (job # NoJob /\ SendsStatusPatch(last'.calls)) =>
                     task.status \in operations(s)
              /\ (job = NoJob /\ SendsStatusPatch(last'.calls)) =>
                     /\ last'.calls[1].op = "create"
                     /\ task.status \in operations("queued") \cap operations("in-progress")
              /\ (job # NoJob /\ task.status \notin operations(s)
                  /\ s # operations_idem(task.status)) =>
                     /\ last'.status = "failed"
                     /\ PatchCalls(last'.calls) = <<>>
                     /\ jobs' = jobs]_vars

\* commit was requested on a queued job: the invocation has failed on the
\* status and has sent nothing
C6_Witness ==
    /\ last.module = "data_migration"
    /\ task.status = "commit"
    /\ last.found.status = "queued"
    /\ last.status = "failed"
    /\ last.msg = "Could not update status of the migration job"
    /\ last.calls = <<>>
    /\ jobs[task.migration_name].status = "queued"

\* the job is already in the status the request leads to
C7_Case ==
    /\ task.migration_name \in MigNames
    /\ jobs[task.migration_name] # NoJob
    /\ task.status # None
    /\ jobs[task.migration_name].status = operations_idem(task.status)

\* the task asks for nothing but the status
C7_NothingElse ==
    /\ task.state = "present"
    /\ task.transfer_size = 0
    /\ task.source_name = None

\* C7: a status request that the job already satisfies sends no status
\* patch and is never the reason of a failure; with nothing else requested
\* the invocation succeeds without any call, reports changed=false, returns
\* the job and leaves it as it is.
C7_SatisfiedStatusIsNoOp ==
    [][C7_Case =>
          /\ ~SendsStatusPatch(last'.calls)
          /\ last'.msg # "Could not update status of the migration job"
          /\ C7_NothingElse =>
                /\ last'.status = "ok"
                /\ last'.calls = <<>>
                /\ ~last'.changed
                /\ jobs' = jobs
                /\ last'.details = jobs[task.migration_name]]_vars

\* pause was requested alone on a paused job, and the run has succeeded
C7_Witness ==
    /\ C7_Case /\ C7_NothingElse
    /\ task.status = "pause"
    /\ last.module = "data_migration"
    /\ last.found.status = "paused"
    /\ last.status = "ok"
    /\ last.calls = <<>>

\* cancel is requested on a paused job that is to stay
C8_Case ==
    /\ task.migration_name \in MigNames
    /\ jobs[task.migration_name] # NoJob
    /\ jobs[task.migration_name].status = "paused"
    /\ task.status = "cancel"
    /\ task.state = "present"

\* C8: status=cancel on a paused job sends one patch call with the status
\* operation cancel, reports changed=true and the job becomes cancelled;
\* with nothing else requested the invocation succeeds, and whenever it
\* fails (on something else that was requested) nothing has been sent.
C8_CancelPaused ==
    [][C8_Case =>
          /\ C7_NothingElse => last'.status = "ok"
          /\ last'.status = "ok" =>
                /\ Len(last'.calls) = 1
                /\ last'.calls[1].op = "patch"
                /\ last'.calls[1].val[1] = [op |-> "replace", path |-> "/status", value |-> "cancel"]
                /\ C7_NothingElse => Len(last'.calls[1].val) = 1
                /\ last'.changed
                /\ jobs'[task.migration_name].status = "cancelled"
                /\ last'.details.status = "cancelled"
          /\ last'.status # "ok" => (last'.calls = <<>> /\ jobs' = jobs)]_vars

\* cancel was requested on a paused job: patched, changed, cancelled
C8_Witness ==
    /\ last.module = "data_migration"
    /\ task.status = "cancel"
    /\ last.found.status = "paused"
    /\ last.status = "ok"
    /\ last.changed
    /\ Len(last.calls) = 1
    /\ jobs[task.migration_name].status = "cancelled"

\* the devices of the expand calls of a call log, in order
ExpandDevices(calls) ==
    LET e == SelectSeq(calls, LAMBDA k : k.op = "expand")
    IN  [i \in 1..Len(e) |-> e[i].val[1]]

\* the additional-device chain of the volume the task names: the device
\* children of its supporting device, the dated one left out
Chain ==
    remaining_children(device_children(
        devices[vvols[task.virtual_volume_name].supporting_device].children))

\* TRUE when the volume the task names is a mirror
Mirrored ==
    get_volume_type(device_children(
        devices[vvols[task.virtual_volume_name].supporting_device].children)) = "mirrored"

\* the task expands an existing volume with a list of devices
ExpandCase ==
    /\ task.state = "present"
    /\ task.virtual_volume_name \in VolNames
    /\ vvols[task.virtual_volume_name].exists
    /\ task.expand
    /\ task.additional_devices # <<>>

\* the chain of the volume is a prefix of the requested list
C9_Case ==
    /\ ExpandCase
    /\ ~Mirrored
    /\ Len(Chain) <= Len(task.additional_devices)
    /\ \A i \in 1..Len(Chain) : Chain[i] = task.additional_devices[i]

\* the requested devices beyond the chain
C9_Suffix == SubSeq(task.additional_devices, Len(Chain) + 1, Len(task.additional_devices))

\* every device beyond the chain is free, none is requested twice, the setup
\* is a 6.2 one and the task asks for nothing but the expansion
C9_Clear ==
    /\ vplex_version = 6
    /\ task.new_virtual_volume_name = None
    /\ task.remote_access = None
    /\ \A i \in 1..Len(C9_Suffix) :
          /\ devices[C9_Suffix[i]].exists
          /\ devices[C9_Suffix[i]].virtual_volume = None
          /\ devices[C9_Suffix[i]].top_level
          /\ \A j \in 1..Len(C9_Suffix) : C9_Suffix[i] = C9_Suffix[j] => i = j

\* C9: when the chain of the volume is a prefix of the requested
\* additional_devices, the expand calls of the invocation name devices
\* beyond the chain only, one call per device in list order; a successful
\* invocation has made exactly one expand call per device beyond the chain,
\* and the invocation succeeds when those devices are free: the chain then
\* is the requested list.
C9_OnlySuffixExpanded ==
    [][C9_Case =>
          LET done == ExpandDevices(last'.calls)
          IN  /\ Len(done) <= Len(C9_Suffix)
              /\ \A i \in 1..Len(done) : done[i] = C9_Suffix[i]
              /\ last'.status = "ok" => done = C9_Suffix
              /\ C9_Clear =>
                    /\ last'.status = "ok"
                    /\ Mutations(last'.calls) =
                          [i \in 1..Len(C9_Suffix) |->
                              Call("expand", task.virtual_volume_name, <<C9_Suffix[i]>>)]
                    /\ Chain' = task.additional_devices
                    /\ last'.changed = (C9_Suffix # <<>>)]_vars

\* a volume with chain D1, D2 was asked to have D1, D2, D3 and has been
\* expanded with D3 alone
C9_Witness ==
    /\ last.module = "virtual_volume"
    /\ last.status = "ok"
    /\ last.found = <<"D1", "D2">>
    /\ task.additional_devices = <<"D1", "D2", "D3">>
    /\ ExpandDevices(last.calls) = <<"D3">>
    /\ last.changed

\* C10: when the requested additional_devices disagree with the chain of the
\* volume at a shared position, the invocation fails, has issued no
\* mutating call and leaves the appliance as it is.
C10_MismatchFailsWithoutMutation ==
    [][(ExpandCase
        /\ \E i \in 1..Len(Chain) :
              i <= Len(task.additional_devices) /\ Chain[i] # task.additional_devices[i]) =>
          /\ last'.status = "failed"
          /\ Mutations(last'.calls) = <<>>
          /\ vvols' = vvols /\ devices' = devices]_vars


----------------------------------------------------------------------------
(* Set-membership reconciliation: consistency group volumes, storage view
   ports, initiators and volumes, device extents *)

InitMembers == InitCG \/ InitSV \/ InitDev

NextMembers ==
    \/ "cg_name" \in DOMAIN task /\ CgInvocation
    \/ "storage_view_name" \in DOMAIN task /\ SvInvocation
    \/ "device_name" \in DOMAIN task /\ DevInvocation

SpecMembers == InitMembers /\ [][NextMembers]_vars

\* the elements of a sequence
Range(s) == {s[i] : i \in 1..Len(s)}

\* the rule for one member list: ops are the operations planned for the
\* list, listed the requested members, current the members the parent has
\* when the invocation starts
MemberRule(ops, listed, present, absent, current) ==
    /\ \A op \in ops :
        /\ op.value \in listed
        /\ op.op = "add" => present /\ op.value \notin current
        /\ op.op = "remove" => absent /\ op.value \in current
    /\ \A u \in listed :
        (present /\ u \in current) \/ (absent /\ u \notin current)
            => \A op \in ops : op.value # u

\* the planned operations of a path
OpsAt(planned, path) == {op \in Range(planned) : op.path = path}

\* the rule for the volumes of a consistency group
CgMemberRule(req, out) ==
    MemberRule(OpsAt(out.planned, "/virtual_volumes"),
               {get_v_vol_uri(Cluster, v) : v \in Range(req.virtual_volumes)},
               req.virtual_volume_state = "present-in-cg",
               req.virtual_volume_state = "absent-in-cg",
               {get_v_vol_uri(Cluster, v) : v \in CgMembers(vvols, req.cg_name)})

\* the rule for the ports, initiators and volumes of a storage view
SvMemberRule(req, out) ==
    LET cur == SvRecord(views, req.storage_view_name)
    IN  /\ MemberRule(OpsAt(out.planned, "/ports"),
                      {SvPortUri(p) : p \in Range(req.ports)},
                      req.port_state = "present-in-view",
                      req.port_state = "absent-in-view", cur.ports)
        /\ MemberRule(OpsAt(out.planned, "/initiators"),
                      {SvInitUri(i) : i \in Range(req.initiators)},
                      req.initiator_state = "present-in-view",
                      req.initiator_state = "absent-in-view", cur.initiators)
        /\ MemberRule(OpsAt(out.planned, "/virtual_volumes"),
                      {SvVolUri(Cluster, v) : v \in Range(req.virtual_volumes)},
                      req.virtual_volume_state = "present-in-view",
                      req.virtual_volume_state = "absent-in-view", cur.virtual_volumes)

\* the rule for the extents of a device
DevMemberRule(req, out) ==
    MemberRule({op \in OpsAt(out.planned, "/legs") : op.value[2] = "extents"},
               {ExtUri(Cluster, e) : e \in Range(req.extents)},
               req.extent_state = "present-in-device",
               req.extent_state = "absent-in-device",
               {ExtUri(Cluster, e) : e \in ExtentsOf(extents, req.device_name)})

\* C11: for every member list of a request, the planned patch has an add
\* for a listed member only if the parent lacks it and the list is
\* requested present, a remove only if the parent has it and the list is
\* requested absent, and nothing for a member already as requested.
C11_MembershipOps ==
    [][/\ "cg_name" \in DOMAIN task => CgMemberRule(task, last')
       /\ "storage_view_name" \in DOMAIN task => SvMemberRule(task, last')
       /\ "device_name" \in DOMAIN task => DevMemberRule(task, last')]_vars

\* C11 witness: a view was asked for two ports, had one of them, and one
\* add was planned and sent
C11_Witness ==
    /\ last.module = "storage_view"
    /\ last.status = "ok"
    /\ task.port_state = "present-in-view"
    /\ Cardinality(Range(task.ports)) = 2
    /\ Len(last.planned) = 1
    /\ last.planned[1].op = "add"
    /\ Cardinality(last.details.ports) = 2

----------------------------------------------------------------------------
(* Adding ports to a storage view *)

\* the view sv1 holds ports {p1, p2} and the task asks for ports [p1, p3]
\* to be present in it, and for nothing else
C12_Case(p1, p2, p3) ==
    /\ Cardinality({p1, p2, p3}) = 3
    /\ views["sv1"].exists
    /\ views["sv1"].ports = {p1, p2}
    /\ task = SvRequest(None, <<p1, p3>>, "present-in-view", <<>>, None, <<>>, None, "present")

----------------------------------------------------------------------------
(* Members owned by another parent *)

\* a patch call is in the call log
PatchSent(out) == \E i \in 1..Len(out.calls) : out.calls[i].op = "patch"

\* the listed volumes that belong to another consistency group
CgForeign(req) ==
    {v \in Range(req.virtual_volumes) :
        /\ v \in DOMAIN vvols
        /\ vvols[v].exists
        /\ vvols[v].consistency_group \notin {req.cg_name, None}}

\* the listed extents that are used by another device
DevForeign(req) ==
    {e \in Range(req.extents) :
        /\ e \in DOMAIN extents
        /\ extents[e].exists
        /\ extents[e].use = "used"
        /\ extents[e].used_by # req.device_name}

\* the listed volumes that another storage view exports and the addressed
\* view does not
SvForeign(req) ==
    {v \in Range(req.virtual_volumes) :
        /\ v \notin views[req.storage_view_name].virtual_volumes
        /\ \E n \in SvNames \ {req.storage_view_name} :
              views[n].exists /\ v \in views[n].virtual_volumes}

\* a consistency group task that lists a volume of another group to add
C13_CgCase ==
    /\ "cg_name" \in DOMAIN task
    /\ task.state = "present"
    /\ task.virtual_volume_state = "present-in-cg"
    /\ CgForeign(task) # {}

\* a device task that lists an extent of another device to add
C13_DevCase ==
    /\ "device_name" \in DOMAIN task
    /\ task.state = "present"
    /\ task.extent_state = "present-in-device"
    /\ DevForeign(task) # {}

\* a storage view task that lists a volume of another view to add
C13_SvCase ==
    /\ "storage_view_name" \in DOMAIN task
    /\ task.state = "present"
    /\ views[task.storage_view_name].exists
    /\ task.virtual_volume_state = "present-in-view"
    /\ SvForeign(task) # {}

\* C13 as stated: a task that lists a member owned by another parent
\* fails and sends no patch, in each of the three modules.
C13_ForeignMemberFails ==
    [][C13_CgCase \/ C13_DevCase \/ C13_SvCase
          => last'.status = "failed" /\ ~PatchSent(last')]_vars

\* C13 amended: a consistency group task listing a volume of another
\* group, and a device task listing an extent of another device, fail with
\* no patch sent and no member moved; a storage view task listing a volume
\* exported by another view is not failed for it: when it succeeds, it
\* has warned and the patch sent adds the volume.
C13_ForeignMemberFailsOrWarns ==
    [][/\ C13_CgCase =>
            /\ last'.status = "failed"
            /\ ~PatchSent(last')
            /\ \A v \in DOMAIN vvols :
                  vvols'[v].consistency_group = vvols[v].consistency_group
       /\ C13_DevCase =>
            /\ last'.status = "failed"
            /\ ~PatchSent(last')
            /\ extents' = extents
            /\ ldevs' = ldevs
       /\ C13_SvCase /\ last'.status = "ok" =>
            /\ last'.warned
            /\ PatchSent(last')
            /\ \A v \in SvForeign(task) :
                  /\ payload("add", "/virtual_volumes", SvVolUri(Cluster, v))
                        \in Range(last'.planned)
                  /\ v \in views'[task.storage_view_name].virtual_volumes]_vars

\* C13 witness: a device task was failed for an extent of another device
\* before anything was sent
C13_Witness ==
    /\ last.module = "device"
    /\ last.status = "failed"
    /\ last.msg = "Extent is used by another device"
    /\ task.extent_state = "present-in-device"
    /\ last.calls = <<>>
    /\ \E e \in Range(task.extents) :
          extents[e].use = "used" /\ extents[e].used_by # task.device_name

----------------------------------------------------------------------------
(* Removing a member owned by another parent *)

\* the planned operations that name one of the members
OpsFor(out, uris) == {op \in Range(out.planned) : op.value \in uris}

\* C14: a task asking for a member to be absent, the member being owned
\* by another parent than the addressed one, is not failed for that and
\* plans no operation for the member (consistency group volumes, device
\* extents).
C14_AbsentForeignIsNoOp ==
    [][/\ ( /\ "cg_name" \in DOMAIN task
            /\ task.state = "present"
            /\ task.virtual_volume_state = "absent-in-cg"
            /\ CgForeign(task) # {} )
          => /\ last'.msg # "Virtual volume is used by another Consistency group"
             /\ OpsFor(last', {get_v_vol_uri(Cluster, v) : v \in CgForeign(task)}) = {}
       /\ ( /\ "device_name" \in DOMAIN task
            /\ task.state = "present"
            /\ task.extent_state = "absent-in-device"
            /\ DevForeign(task) # {} )
          => /\ last'.msg # "Extent is used by another device"
             /\ OpsFor(last', {ExtUri(Cluster, e) : e \in DevForeign(task)}) = {}]_vars

----------------------------------------------------------------------------
(* Distributed consistency groups under a degraded cluster *)

\* the task asks for a rename, a detach rule, a membership change or the
\* auto-resume flag
DcgAsksPatch(req) ==
    /\ req.state = "present"
    /\ \/ req.new_distributed_cg_name # None
       \/ req.detach_rule # None
       \/ req.distributed_virtual_volumes # <<>>
       \/ req.auto_resume_at_loser # None

\* the task asks for the deletion of a group that exists
DcgAsksDelete(req) ==
    /\ req.state = "absent"
    /\ req.distributed_cg_name \in DOMAIN dcgrps
    /\ dcgrps[req.distributed_cg_name].exists

\* a create, patch or delete call is in the call log
DcgMutated(out) ==
    \E i \in 1..Len(out.calls) : out.calls[i].op \in {"create", "patch", "delete"}

\* C15: with a cluster degraded, a task that asks for a rename, a detach
\* rule, a membership change or the auto-resume flag of a distributed
\* consistency group, or for the deletion of one, fails, and no create,
\* patch or delete call is issued; groups and volumes stay as they are.
C15_DegradedBlocksDcg ==
    [][degraded # None /\ "distributed_cg_name" \in DOMAIN task
         /\ (DcgAsksPatch(task) \/ task.state = "absent")
         => /\ ~DcgMutated(last')
            /\ dcgrps' = dcgrps
            /\ dvvs' = dvvs
            /\ DcgAsksPatch(task) \/ DcgAsksDelete(task) => last'.status = "failed"]_vars

\* C15 witness: the rename of an existing group was refused with a
\* cluster degraded
C15_Witness ==
    /\ degraded # None
    /\ last.module = "distributed_consistency_group"
    /\ last.status = "failed"
    /\ last.msg = "Could not perform the operation as cluster is degraded"
    /\ task.new_distributed_cg_name = "dg3"
    /\ dcgrps["dg1"].exists
    /\ ~dcgrps["dg3"].exists

\* C16: with a cluster degraded, a state=present task that asks for
\* nothing on an existing distributed consistency group succeeds with
\* changed false, no call, and the record the group has.
C16_DegradedGetSucceeds ==
    [][/\ degraded # None
       /\ "distributed_cg_name" \in DOMAIN task
       /\ task.state = "present"
       /\ ~DcgAsksPatch(task)
       /\ task.resume_at = None
       /\ task.distributed_cg_name \in DOMAIN dcgrps
       /\ dcgrps[task.distributed_cg_name].exists
       => /\ last'.status = "ok"
          /\ ~last'.changed
          /\ last'.calls = <<>>
          /\ last'.details = DcgRecord(dcgrps, dvvs, task.distributed_cg_name)
          /\ dcgrps' = dcgrps
          /\ dvvs' = dvvs]_vars

\* C16 witness: the record of a group with a volume was returned with a
\* cluster degraded
C16_Witness ==
    /\ degraded # None
    /\ last.module = "distributed_consistency_group"
    /\ last.status = "ok"
    /\ task = DcgRequest("dg1", None, <<>>, None, None, None, None, "present")
    /\ last.details.name = "dg1"
    /\ last.details.virtual_volumes = {DvvUri("dv1")}
    /\ ~last.changed

----------------------------------------------------------------------------
(* Distributed devices under a degraded cluster *)

\* C17: with a cluster degraded, no leg of a distributed device is added
\* or removed through the device module: a task that asks for a mirror
\* change on a distributed device fails, no patch call is issued and the
\* distributed devices stay as they are.
C17_DegradedBlocksLegChange ==
    [][/\ degraded # None
       /\ "device_name" \in DOMAIN task
       /\ task.device_name \in DdNames
       /\ ddevs[task.device_name].exists
       /\ task.state = "present"
       /\ task.mirror_state # None
       => /\ ~PatchSent(last')
          /\ ddevs' = ddevs
          /\ last'.status = "failed"]_vars

----------------------------------------------------------------------------
(* Deleting a rebuilding device *)

\* a delete call is in the call log
DeleteSent(out) == \E i \in 1..Len(out.calls) : out.calls[i].op = "delete"

\* C18: a state=absent task for a device whose health indications hold
\* "rebuilding" fails, no delete call is issued, and a get of the device
\* afterwards returns the record it had.
C18_RebuildingDeviceKept ==
    [][/\ "device_name" \in DOMAIN task
       /\ task.state = "absent"
       /\ task.device_name \in DOMAIN ldevs
       /\ "rebuilding" \in LdevRecord(ldevs, task.device_name).health_indications
       => /\ last'.status = "failed"
          /\ ~DeleteSent(last')
          /\ LdevRecord(ldevs', task.device_name) = LdevRecord(ldevs, task.device_name)
          /\ ldevs' = ldevs
          /\ extents' = extents]_vars

\* C18 witness: the deletion of a rebuilding device was refused
C18_Witness ==
    /\ last.module = "device"
    /\ last.status = "failed"
    /\ last.msg = "Could not delete device since device is rebuilding"
    /\ task.state = "absent"
    /\ ldevs[task.device_name].exists
    /\ ldevs[task.device_name].rebuilding
    /\ last.calls = <<>>

----------------------------------------------------------------------------
(* Deleting a device that carries a virtual volume *)

InitContain == InitDev \/ InitDD

NextContain ==
    \/ "device_name" \in DOMAIN task /\ DevInvocation
    \/ "distributed_device_name" \in DOMAIN task /\ DdInvocation

SpecContain == InitContain /\ [][NextContain]_vars

\* C19: a state=absent task for a device or a distributed device that has
\* a virtual volume attached fails, and no delete call is issued for it.
C19_ContainedNeverDeleted ==
    [][/\ ( /\ "device_name" \in DOMAIN task
            /\ task.state = "absent"
            /\ task.device_name \in DOMAIN ldevs
            /\ ldevs[task.device_name].exists
            /\ ldevs[task.device_name].virtual_volume # None )
          => last'.status = "failed" /\ ~DeleteSent(last')
       /\ ( /\ "distributed_device_name" \in DOMAIN task
            /\ task.state = "absent"
            /\ task.distributed_device_name \in DOMAIN ddevs
            /\ ddevs[task.distributed_device_name].exists
            /\ ddevs[task.distributed_device_name].virtual_volume # None )
          => last'.status = "failed" /\ ~DeleteSent(last')]_vars

----------------------------------------------------------------------------
(* Deleting a virtual volume *)

InitVols == InitVV \/ InitDVV

NextVols ==
    \/ "virtual_volume_name" \in DOMAIN task /\ VvInvocation
    \/ "distributed_virtual_volume_name" \in DOMAIN task /\ DvvInvocation

SpecVols == InitVols /\ [][NextVols]_vars

\* an existing volume that is unexported and in no consistency group
Deletable(vols, v) ==
    /\ v \in DOMAIN vols
    /\ vols[v].exists
    /\ vols[v].service_status = "unexported"
    /\ vols[v].consistency_group = None

\* the volumes a virtual volume task addresses
VvTargets(req) ==
    {v \in DOMAIN vvols : vvols[v].exists /\ v = req.virtual_volume_name}

\* the volumes a distributed virtual volume task addresses, by id when
\* the id is given, else by name
DvvTargets(req) ==
    {v \in DOMAIN dvvs :
        /\ dvvs[v].exists
        /\ IF req.distributed_virtual_volume_id # None
           THEN DvvSystemId(dvvs[v].supporting_device) = req.distributed_virtual_volume_id
           ELSE v = req.distributed_virtual_volume_name}

\* every delete call of the invocation names a deletable volume
OnlyDeletable(out, vols) ==
    \A i \in 1..Len(out.calls) :
        out.calls[i].op = "delete" => Deletable(vols, out.calls[i].res)

\* C20: a delete call for a virtual volume or a distributed virtual
\* volume is issued only when the volume is unexported and in no
\* consistency group; a state=absent task for a volume that is exported or
\* in a group fails with no delete call and the volume stays.
C20_DeleteOnlyUnusedVolume ==
    [][/\ "virtual_volume_name" \in DOMAIN task =>
            /\ OnlyDeletable(last', vvols)
            /\ \A v \in VvTargets(task) :
                  task.state = "absent" /\ ~Deletable(vvols, v)
                     => /\ last'.status = "failed"
                        /\ ~DeleteSent(last')
                        /\ vvols'[v] = vvols[v]
       /\ "distributed_virtual_volume_name" \in DOMAIN task =>
            /\ OnlyDeletable(last', dvvs)
            /\ \A v \in DvvTargets(task) :
                  task.state = "absent" /\ ~Deletable(dvvs, v)
                     => /\ last'.status = "failed"
                        /\ ~DeleteSent(last')
                        /\ dvvs'[v] = dvvs[v]]_vars

\* C20 witness: the deletion of an unexported distributed virtual volume
\* was refused for the consistency group it is in
C20_Witness ==
    /\ last.module = "distributed_virtual_volume"
    /\ last.status = "failed"
    /\ task.state = "absent"
    /\ degraded = None
    /\ dvvs["dv1"].exists
    /\ dvvs["dv1"].service_status = "unexported"
    /\ dvvs["dv1"].consistency_group = "dg1"
    /\ "dv1" \in DvvTargets(task)
    /\ last.calls = <<>>

----------------------------------------------------------------------------
(* C21: create and the name of a resource of the other scope *)

\* a create call is among the calls of an outcome
CreateSent(out) == \E i \in 1..Len(out.calls) : out.calls[i].op = "create"

\* the task asks for a local consistency group that is absent while a
\* distributed group has the name
C21_CgCase ==
    /\ "cg_name" \in DOMAIN task /\ task.state = "present"
    /\ task.cg_name \notin CgStart.cgs /\ task.cg_name \in dcgs

\* the task asks for a distributed consistency group that is absent while
\* a local group of a cluster has the name
C21_DcgCase ==
    /\ "distributed_cg_name" \in DOMAIN task /\ task.state = "present"
    /\ task.distributed_cg_name \notin DistributedCgNames(dcgrps)
    /\ task.distributed_cg_name \in cgs \cup remote_cgs

\* the task asks to create a local device that is absent while a
\* distributed device has the name
C21_DevCase ==
    /\ "device_name" \in DOMAIN task /\ task.state = "present"
    /\ task.extents # <<>> /\ task.extent_state = "present-in-device"
    /\ task.device_name \in LdevNames /\ ~ldevs[task.device_name].exists
    /\ task.device_name \in DdNames /\ ddevs[task.device_name].exists

\* the task asks for a distributed device that is absent while a local
\* device has the name
C21_DdCase ==
    /\ "distributed_device_name" \in DOMAIN task /\ task.state = "present"
    /\ task.distributed_device_name \in DdNames
    /\ ~ddevs[task.distributed_device_name].exists
    /\ task.distributed_device_name \in LdevNames
    /\ ldevs[task.distributed_device_name].exists

\* C21: a create request fails, with no create call issued, whenever a
\* resource of the same name exists in the other scope: local and
\* distributed consistency groups, local and distributed devices
C21_CrossScopeCreateFails ==
    [][(C21_CgCase \/ C21_DcgCase \/ C21_DevCase \/ C21_DdCase)
            => last'.status = "failed" /\ ~CreateSent(last')]_vars

----------------------------------------------------------------------------
(* C22: rename and the names in use in both scopes *)

\* the task renames an existing local consistency group to a name another
\* local group of the cluster or a distributed group has
C22_CgCase ==
    /\ "cg_name" \in DOMAIN task /\ task.state = "present"
    /\ task.cg_name \in CgStart.cgs
    /\ task.new_cg_name \notin {None, task.cg_name}
    /\ task.new_cg_name \in CgStart.cgs \cup dcgs

\* the task renames an existing distributed consistency group to a name
\* another distributed group or a local group of a cluster has
C22_DcgCase ==
    /\ "distributed_cg_name" \in DOMAIN task /\ task.state = "present"
    /\ task.distributed_cg_name \in DistributedCgNames(dcgrps)
    /\ task.new_distributed_cg_name \notin {None, task.distributed_cg_name}
    /\ task.new_distributed_cg_name \in DistributedCgNames(dcgrps) \cup cgs \cup remote_cgs

\* the names of the local devices of the cluster, of the distributed devices
LocalDevNames == {d \in LdevNames : ldevs[d].exists}
DistDevNames == {d \in DdNames : ddevs[d].exists}

\* the task renames an existing local device to a name another local
\* device or a distributed device has
C22_DevCase ==
    /\ "device_name" \in DOMAIN task /\ task.state = "present"
    /\ task.device_name \in LocalDevNames
    /\ task.new_device_name \notin {None, task.device_name}
    /\ task.new_device_name \in LocalDevNames \cup DistDevNames

\* the task renames an existing distributed device to a name another
\* distributed device or a device of a cluster has
C22_DdCase ==
    /\ "distributed_device_name" \in DOMAIN task /\ task.state = "present"
    /\ task.distributed_device_name \in DistDevNames
    /\ task.new_distributed_device_name \notin {None, task.distributed_device_name}
    /\ task.new_distributed_device_name \in LocalDevNames \cup remote_devs \cup DistDevNames

\* C22: a rename patch is issued only after the new name has been checked
\* against the names of the same scope and of the other (distributed or
\* local) scope; a new name in use in either fails the request with no patch
C22_RenameChecksBothScopes ==
    [][(C22_CgCase \/ C22_DcgCase \/ C22_DevCase \/ C22_DdCase)
            => last'.status = "failed" /\ ~PatchSent(last')]_vars

----------------------------------------------------------------------------
(* C23: local and distributed consistency groups never share a name *)

\* names the tasks of a playbook give to groups of either scope
SharedNames == {"dg1", "dg2", "dg3"}

\* create, rename and delete requests of the consistency group module on
\* either cluster
NamesCgRequests ==
    {[cluster_name |-> cl, cg_name |-> n, virtual_volumes |-> <<>>,
      virtual_volume_state |-> None, new_cg_name |-> new, state |-> st] :
        cl \in Clusters, n \in {"dg1", "dg2"}, new \in {None, "dg2", "dg3"},
        st \in {"present", "absent"}}

\* create, rename and delete requests of the distributed consistency group module
NamesDcgRequests ==
    {DcgRequest(n, new, <<>>, None, None, None, None, st) :
        n \in {"dg1", "dg2"}, new \in {None, "dg2", "dg3"}, st \in {"present", "absent"}}

\* the playbook goes on to its next task
NextTask ==
    /\ task' \in NamesCgRequests \cup NamesDcgRequests
    /\ task' # task
    /\ UNCHANGED <<cgVars, vvols, migVars, vvVars, initVars, svVars, devVars, distVars,
                   fe_ports, procs, last, tick>>

\* appliance states in which no name is used by both a local and a
\* distributed consistency group
InitGroups ==
    /\ cgs \in SUBSET SharedNames
    /\ remote_cgs \in SUBSET SharedNames
    /\ dcgrps \in [DcgNames -> {NoDcg, Dcg(FALSE, "no_automatic_winner", FALSE)}]
    /\ DistributedCgNames(dcgrps) \cap (cgs \cup remote_cgs) = {}
    /\ dcgs = DistributedCgNames(dcgrps)
    /\ degraded = None
    /\ ddevs = [d \in DdNames |-> NoDdev]
    /\ dvvs = [v \in DvvNames |-> NoDvv]
    /\ vvols = [v \in VolNames |-> NoVol]
    /\ task \in NamesCgRequests \cup NamesDcgRequests
    /\ jobs = [m \in MigNames |-> NoJob]
    /\ sobjs = [cl \in Clusters |-> [d \in ObjNames |-> NoObj]]
    /\ NoVvState
    /\ ports = NoPorts
    /\ NoSvState
    /\ NoDevState
    /\ last = NoOutcome
    /\ tick = 0
    /\ fe_ports = NoFePorts
    /\ procs = NoProcs

NextGroups ==
    \/ "cg_name" \in DOMAIN task /\ CgInvocation
    \/ "distributed_cg_name" \in DOMAIN task /\ DcgInvocation
    \/ NextTask

SpecGroups == InitGroups /\ [][NextGroups]_vars

\* C23: starting with no name used by both a local and a distributed
\* consistency group, after any sequence of invocations of the two modules
\* there is still no name used by both a local group of any cluster and a
\* distributed group
C23_NoSharedGroupName ==
    (cgs \cup remote_cgs) \cap DistributedCgNames(dcgrps) = {}

\* a distributed group has just been renamed to dg3 while both clusters
\* have local groups
C23_Witness ==
    /\ last.module = "distributed_consistency_group" /\ last.status = "ok"
    /\ PatchSent(last) /\ last.changed
    /\ cgs # {} /\ remote_cgs # {}
    /\ "dg3" \in DistributedCgNames(dcgrps)

----------------------------------------------------------------------------
(* C24, C25: the transfer size of a migration job and of a device *)

\* transfer sizes a task supplies: around both limits, multiples of 4096
\* and others, below, inside and above the range
SizeInputs ==
    {-4096, 4096, 36864, 40959, 40960, 40961, 45056, 131072, 134213632,
     134217727, 134217728, 134217729, 134221824}

\* migration tasks that supply a transfer size
SizeMigRequests ==
    {[migration_name |-> "m1", source_name |-> st[1], target_name |-> st[2],
      transfer_size |-> ts, status |-> None, cluster_name |-> "cluster-1",
      target_cluster |-> None, storage |-> sto, state |-> state] :
        st \in {<<None, None>>, <<"d1", "d2">>}, ts \in SizeInputs,
        sto \in {"device", "extent"}, state \in {"present", "absent"}}

\* device tasks that supply a transfer size, with and without extents to
\* create the device from
SizeDevRequests ==
    {DevRequest("L1", state, "raid-1", None, ex[1], ex[2], None, None, None, ts) :
        state \in {"present", "absent"},
        ex \in {<<<<>>, None>>, <<<<"e1">>, "present-in-device">>},
        ts \in SizeInputs}

\* appliance states for the migration tasks: the job m1 absent or running
\* on the free objects d1 and d2 of cluster-1
InitSizeMig ==
    /\ task \in SizeMigRequests
    /\ jobs \in [MigNames -> {NoJob,
                   [name |-> "m1", status |-> "in-progress", transfer_size |-> 131072,
                    source |-> ObjUri("cluster-1", task.storage, "d1"),
                    target |-> ObjUri("cluster-1", task.storage, "d2")]}]
    /\ LET Obj == [exists |-> TRUE, capacity |-> 1, virtual_volume |-> None,
                   use |-> IF task.storage = "device" THEN None ELSE "claimed"]
       IN  sobjs = [cl \in Clusters |->
                      IF cl = "cluster-1" THEN [d \in ObjNames |-> Obj]
                      ELSE [d \in ObjNames |-> NoObj]]
    /\ NoDevState

\* appliance states for the device tasks: the device L1 absent, raid-1 or
\* raid-0, the extent e1 claimed or a leg of L1
InitSizeDev ==
    /\ task \in SizeDevRequests
    /\ jobs = [m \in MigNames |-> NoJob]
    /\ sobjs = [cl \in Clusters |-> [d \in ObjNames |-> NoObj]]
    /\ \E a \in {NoLdev, Ldev("raid-1", FALSE, None, 2, {}), Ldev("raid-0", FALSE, None, 2, {})},
          x \in {Claimed(2), Used("L1", 2)} :
         /\ a.exists = (x.use = "used")
         /\ ldevs = [d \in LdevNames |-> IF d = "L1" THEN a ELSE NoLdev]
         /\ extents = [e \in ExtNames |-> IF e = "e1" THEN x ELSE Claimed(2)]

InitSize ==
    /\ InitSizeMig \/ InitSizeDev
    /\ cgs = {}
    /\ dcgs = {}
    /\ remote_cgs = {}
    /\ vvols = [v \in VolNames |-> NoVol]
    /\ NoVvState
    /\ ports = NoPorts
    /\ NoSvState
    /\ NoDistState
    /\ last = NoOutcome
    /\ tick = 0
    /\ fe_ports = NoFePorts
    /\ procs = NoProcs

NextSize ==
    \/ "migration_name" \in DOMAIN task /\ MigInvocation
    \/ "device_name" \in DOMAIN task /\ DevInvocation

SpecSize == InitSize /\ [][NextSize]_vars

\* the sizes the range [40960, 134217728] and the 4096 grid admit
ValidTransferSize(n) == 40960 <= n /\ n <= 134217728 /\ n % 4096 = 0

\* the invocation ended with the rejection of the transfer size
SizeRejected(out) == out.status = "failed" /\ out.msg = "invalid transfer size"

\* the device module gets as far as comparing the supplied size: the
\* device is asked present, exists or is created by this task, is a raid-1
\* and has another transfer size
DevSizeChecked ==
    /\ task.state = "present"
    /\ \/ /\ ldevs[task.device_name].exists
          /\ ldevs[task.device_name].geometry = "raid-1"
          /\ ldevs[task.device_name].transfer_size # task.transfer_size
       \/ /\ ~ldevs[task.device_name].exists
          /\ task.extents # <<>> /\ task.extent_state = "present-in-device"
          /\ \A i \in 1..Len(task.extents) : extents[task.extents[i]].use = "claimed"
          /\ task.transfer_size # 131072

SizesSent(out) ==
    UNION {{out.calls[i].val[j].value :
                j \in {k \in 1..Len(out.calls[i].val) :
                          out.calls[i].val[k].path = "/transfer_size"}} :
           i \in {k \in 1..Len(out.calls) : out.calls[k].op = "patch"}}

\* C25: an invalid transfer size is rejected pre-flight: the rejection
\* comes before any create, patch or delete call of the invocation, and no
\* invalid value is sent in a patch or reaches a created migration job
C25_InvalidSizeRejectedPreFlight ==
    [][/\ SizeRejected(last') => last'.calls = <<>>
       /\ \A n \in SizesSent(last') : ValidTransferSize(n)
       /\ \A m \in MigNames : jobs'[m] # NoJob => ValidTransferSize(jobs'[m].transfer_size)]_vars

----------------------------------------------------------------------------
(* C26: requests that ask for what the resource already has *)

InitNoOp ==
    /\ InitCG \/ InitDev \/ InitDCG \/ InitDD
    /\ task.state = "present"

NextNoOp ==
    \/ "cg_name" \in DOMAIN task /\ CgInvocation
    \/ "device_name" \in DOMAIN task /\ DevInvocation
    \/ "distributed_cg_name" \in DOMAIN task /\ DcgInvocation
    \/ "distributed_device_name" \in DOMAIN task /\ DdInvocation

SpecNoOp == InitNoOp /\ [][NextNoOp]_vars

\* every element of the list is in the set
AllIn(list, S) == \A i \in 1..Len(list) : list[i] \in S

\* a consistency group task that renames the group to its own name or
\* adds volumes that are its members already
C26_CgTask ==
    /\ "cg_name" \in DOMAIN task /\ task.state = "present"
    /\ task.cg_name \in cgs
    /\ task.new_cg_name \in {None, task.cg_name}
    /\ task.new_cg_name # None \/ task.virtual_volumes # <<>>
    /\ task.virtual_volumes # <<>> =>
          /\ task.virtual_volume_state = "present-in-cg"
          /\ AllIn(task.virtual_volumes, CgMembers(vvols, task.cg_name))

\* a distributed consistency group task that renames the group to its own
\* name, adds volumes that are its members already or sets
\* auto_resume_at_loser to the value it has
C26_DcgTask ==
    /\ "distributed_cg_name" \in DOMAIN task /\ task.state = "present"
    /\ task.distributed_cg_name \in DistributedCgNames(dcgrps)
    /\ task.new_distributed_cg_name \in {None, task.distributed_cg_name}
    /\ task.detach_rule = None /\ task.resume_at = None
    /\ task.auto_resume_at_loser \in
          {None, IF dcgrps[task.distributed_cg_name].auto_resume_at_loser
                 THEN "true" ELSE "false"}
    /\ \/ task.new_distributed_cg_name # None
       \/ task.auto_resume_at_loser # None
       \/ task.distributed_virtual_volumes # <<>>
    /\ task.distributed_virtual_volumes # <<>> =>
          /\ task.distributed_virtual_volume_state = "present-in-cg"
          /\ AllIn(task.distributed_virtual_volumes,
                   DcgMembers(dvvs, task.distributed_cg_name))

\* a device task that renames the device to its own name, adds extents
\* that are its legs already or a mirror it has already
C26_DevTask ==
    /\ "device_name" \in DOMAIN task /\ task.state = "present"
    /\ task.device_name \in LocalDevNames
    /\ task.new_device_name \in {None, task.device_name}
    /\ task.transfer_size = 0
    /\ task.new_device_name # None \/ task.extents # <<>> \/ task.mirror_name # None
    /\ task.extents # <<>> =>
          /\ task.extent_state = "present-in-device"
          /\ AllIn(task.extents, ExtentsOf(extents, task.device_name))
    /\ task.mirror_name # None =>
          /\ task.mirror_state = "present-in-device"
          /\ task.mirror_name \in ldevs[task.device_name].mirrors

\* a distributed device task that renames the device to its own name
C26_DdTask ==
    /\ "distributed_device_name" \in DOMAIN task /\ task.state = "present"
    /\ task.distributed_device_name \in DistDevNames
    /\ task.new_distributed_device_name = task.distributed_device_name
    /\ task.source_device = None /\ task.target_device = None /\ task.rule_set = None

C26_Blocked ==
    \/ degraded # None
    \/ /\ "cg_name" \in DOMAIN task
       /\ \E i \in 1..Len(task.virtual_volumes) :
              /\ task.virtual_volumes[i] \in DOMAIN vvols
              /\ vvols[task.virtual_volumes[i]].visibility # "local"

----------------------------------------------------------------------------
(* C27: state=absent for a resource that is absent already *)

\* every module with a state parameter, given a task with state=absent
InitAbsent ==
    /\ \/ InitCG \/ InitMig \/ InitVV \/ InitInit \/ InitSV
       \/ InitDev \/ InitDCG \/ InitDD \/ InitDVV
    /\ task.state = "absent"

NextAbsent ==
    \/ "cg_name" \in DOMAIN task /\ CgInvocation
    \/ "migration_name" \in DOMAIN task /\ MigInvocation
    \/ "virtual_volume_name" \in DOMAIN task /\ VvInvocation
    \/ "initiator_name" \in DOMAIN task /\ InitInvocation
    \/ "storage_view_name" \in DOMAIN task /\ SvInvocation
    \/ "device_name" \in DOMAIN task /\ DevInvocation
    \/ "distributed_cg_name" \in DOMAIN task /\ DcgInvocation
    \/ "distributed_device_name" \in DOMAIN task /\ DdInvocation
    \/ "distributed_virtual_volume_name" \in DOMAIN task /\ DvvInvocation

SpecAbsent == InitAbsent /\ [][NextAbsent]_vars

\* the name is not the name of an existing record of the table
Missing(table, name) == name \notin DOMAIN table \/ ~table[name].exists

\* the resource the task names does not exist on the appliance
C27_AlreadyAbsent ==
    /\ task.state = "absent"
    /\ "cg_name" \in DOMAIN task => task.cg_name \notin CgStart.cgs
    /\ "migration_name" \in DOMAIN task =>
          task.migration_name \notin MigNames \/ jobs[task.migration_name] = NoJob
    /\ "virtual_volume_name" \in DOMAIN task => Missing(vvols, task.virtual_volume_name)
    /\ "initiator_name" \in DOMAIN task =>
          /\ {task.initiator_name, task.port_wwn, task.iscsi_name} # {None}
          /\ \A i \in 1..Len(PortIds) :
                /\ ports[PortIds[i]].name # task.initiator_name
                /\ PortIds[i] \notin {task.port_wwn, task.iscsi_name}
    /\ "storage_view_name" \in DOMAIN task => Missing(views, task.storage_view_name)
    /\ "device_name" \in DOMAIN task => Missing(ldevs, task.device_name)
    /\ "distributed_cg_name" \in DOMAIN task => Missing(dcgrps, task.distributed_cg_name)
    /\ "distributed_device_name" \in DOMAIN task =>
          Missing(ddevs, task.distributed_device_name)
    /\ "distributed_virtual_volume_name" \in DOMAIN task =>
          /\ task.distributed_virtual_volume_name # None =>
                Missing(dvvs, task.distributed_virtual_volume_name)
          /\ task.distributed_virtual_volume_id # None =>
                get_dist_vv_by_id(DvvStart, task.distributed_virtual_volume_id) = NoDvvDetails

\* a call that changes the appliance: every logged call but the port
\* rediscovery of the initiator module
MutatingSent(out) == \E i \in 1..Len(out.calls) : out.calls[i].op # "rediscover"

C27_WellFormed ==
    /\ "cg_name" \in DOMAIN task => validate_name(task.cg_name)
    /\ "migration_name" \in DOMAIN task =>
          /\ validate_name(task.migration_name)
          /\ task.transfer_size = 0 \/ ValidTransferSize(task.transfer_size)
    /\ "initiator_name" \in DOMAIN task =>
          /\ 0 < task.rediscover_timeout /\ task.rediscover_timeout < 3601
          /\ task.initiator_name = None \/ validate_name36(task.initiator_name)
    /\ "device_name" \in DOMAIN task => validate_name(task.device_name)
    /\ "distributed_cg_name" \in DOMAIN task => validate_name(task.distributed_cg_name)
    /\ "distributed_device_name" \in DOMAIN task =>
          validate_name(task.distributed_device_name)

----------------------------------------------------------------------------
(* C28: what a fetch that returns None says about the appliance *)

\* how the appliance answers the calls of get_job_details: with the data,
\* or with an error status that the client raises as utils.ApiException
ApiResponses == {"ok", "api_error"}

\* the context of an invocation whose fetch is answered with `api`
MigStartApi(api) ==
    [jobs |-> jobs, sobjs |-> sobjs, calls |-> <<>>,
     status |-> "run", kind |-> None, msg |-> None, changed |-> FALSE,
     details |-> NoJob, found |-> NoJob, patch |-> <<>>, create_flag |-> 0,
     api |-> api]

\* one run of the data migration module, the appliance answering the fetch
\* of the job with the data or with an error status
MigInvocationApi ==
    \E started \in {"queued", "in-progress"}, api \in ApiResponses :
        LET c == Mig_perform_from(MigStartApi(api), task, started)
        IN  /\ jobs' = c.jobs
            /\ last' = Outcome("data_migration", c, c.jobs # jobs)
            /\ tick' = 1 - tick
            /\ fe_ports' = fe_ports
            /\ procs' = procs
            /\ UNCHANGED <<sobjs, task, cgVars, vvols, vvVars, initVars, svVars, devVars, distVars>>

\* the appliance states of InitMig, for the tasks on device migrations that
\* ask for no status other than pause
InitFetch ==
    /\ InitMig
    /\ task.storage = "device"
    /\ task.status \in {None, "pause"}
    /\ task.transfer_size \in {0, 131072}

NextFetch == MigInvocationApi

SpecFetch == InitFetch /\ [][NextFetch]_vars

\* the job the task names exists on the appliance
JobExists == task.migration_name \in MigNames /\ jobs[task.migration_name] # NoJob

\* C28: when the fetch of the named job returns None, the job does not
\* exist on the appliance
C28_NoneMeansAbsent ==
    [][last'.found = NoJob => ~JobExists]_vars

----------------------------------------------------------------------------
(* C29: names that utils.validate_name rejects *)

\* names of 63 and 64 characters, and of 36 and 37 characters
Name63 == "n012345678901234567890123456789012345678901234567890123456789ab"
Name64 == "n012345678901234567890123456789012345678901234567890123456789abc"
Name36 == "s012345678901234567890123456789abcde"
Name37 == "s012345678901234567890123456789abcdef"

\* names the pattern rejects: a leading digit, a leading hyphen, the empty
\* name, a blank and a dot inside
OddNames == {"9x", "-a", "", "a b", "a.b"}

\* names the pattern accepts
PlainNames == {"_a-1", "A_9"}

\* consistency group tasks with such names
NameCgRequests ==
    {[cg_name |-> n, virtual_volumes |-> <<>>, virtual_volume_state |-> None,
      new_cg_name |-> new, state |-> st] :
        n \in {"cg1", Name63, Name64} \cup OddNames \cup PlainNames,
        new \in {None, "cg2", Name63, Name64} \cup OddNames \cup PlainNames,
        st \in {"present", "absent"}}

\* storage view tasks with such names
NameSvRequests ==
    {[SvRequest(new, pts, pst, <<>>, None, <<>>, None, st) EXCEPT !.storage_view_name = n] :
        n \in {"sv1", Name36, Name37} \cup OddNames,
        new \in {None, "sv3", Name36, Name37} \cup OddNames,
        pts \in {<<>>, <<"P1">>}, pst \in {None, "present-in-view"},
        st \in {"present", "absent"}}

\* virtual volume tasks with such names
NameVvRequests ==
    {VvRequest(st, new, sup, TRUE, FALSE, None, <<>>, FALSE, n) :
        st \in {"present", "absent"},
        new \in {None, "v2", Name63, Name64} \cup OddNames,
        sup \in {None, "D0"},
        n \in {"v1", Name64} \cup OddNames}

InitNameCG ==
    /\ task \in NameCgRequests
    /\ cgs \in SUBSET {"cg1", "cg2"}
    /\ dcgs = {}
    /\ remote_cgs = {}
    /\ vvols = [v \in VolNames |-> NoVol]
    /\ NoVvState
    /\ NoSvState

InitNameSV ==
    /\ task \in NameSvRequests
    /\ \E a \in {NoView, View({"P1"}, {}, {}), View({"P1", "P2"}, {"i1"}, {"v1"})},
          b \in {NoView, View({"P3"}, {"i2"}, {})} :
         views = [n \in SvNames \cup {Name36} |->
                     IF n = "sv1" THEN a ELSE IF n = "sv2" THEN b ELSE NoView]
    /\ cgs = {}
    /\ dcgs = {}
    /\ remote_cgs = {}
    /\ vvols = [v \in VolNames |-> NoVol]
    /\ NoVvState

InitNameVV ==
    /\ task \in NameVvRequests
    /\ \E there \in BOOLEAN, svc \in {"unexported", "running"} :
         /\ vvols = [v \in VolNames |->
                IF v = "v1" /\ there THEN Vol(None, "local", svc, "D0", 1, 0) ELSE NoVol]
         /\ devices = [d \in DevNames |->
                IF d = "D0"
                THEN Dev(IF there THEN "v1" ELSE None, TRUE, "done", <<ExtentChild("x0")>>)
                ELSE NoDev]
    /\ vplex_version \in {6, 7}
    /\ directors_ok = TRUE
    /\ dist_vols = {}
    /\ remote_vols = {}
    /\ remote_devs = {}
    /\ cgs = {}
    /\ dcgs = {}
    /\ remote_cgs = {}
    /\ NoSvState

InitNameCheck ==
    /\ InitNameCG \/ InitNameSV \/ InitNameVV
    /\ jobs = [m \in MigNames |-> NoJob]
    /\ sobjs = [cl \in Clusters |-> [d \in ObjNames |-> NoObj]]
    /\ ports = NoPorts
    /\ NoDevState
    /\ NoDistState
    /\ last = NoOutcome
    /\ tick = 0
    /\ fe_ports = NoFePorts
    /\ procs = NoProcs

NextNameCheck ==
    \/ "cg_name" \in DOMAIN task /\ CgInvocation
    \/ "storage_view_name" \in DOMAIN task /\ SvInvocation
    \/ "virtual_volume_name" \in DOMAIN task /\ VvInvocation

SpecNameCheck == InitNameCheck /\ [][NextNameCheck]_vars

\* the task gives a name or a new name that utils.validate_name rejects
\* with the char_len of the module
InvalidNameGiven(req) ==
    \/ /\ "cg_name" \in DOMAIN req
       /\ \/ ~validate_name(req.cg_name)
          \/ req.new_cg_name # None /\ ~validate_name(req.new_cg_name)
    \/ /\ "storage_view_name" \in DOMAIN req
       /\ \/ ~validate_name36(req.storage_view_name)
          \/ req.new_storage_view_name # None /\ ~validate_name36(req.new_storage_view_name)
    \/ /\ "virtual_volume_name" \in DOMAIN req
       /\ \/ ~validate_name(req.virtual_volume_name)
          \/ req.new_virtual_volume_name # None /\ ~validate_name(req.new_virtual_volume_name)

\* C29: a task that gives a name or a new name which is too long or does
\* not match the pattern always fails, and no call has been made
C29_InvalidNameRejectedLocally ==
    [][InvalidNameGiven(task) => last'.status = "failed" /\ last'.calls = <<>>]_vars

----------------------------------------------------------------------------
(* Maps module *)

\* the module's self.unsupported_entity
unsupported_entity ==
    {"distributed_consistency_groups", "storage_views", "consistency_groups",
     "storage_arrays"}

\* Python's `sub in text` for two strings
Contains(text, sub) ==
    \E i \in 1..(Len(text) - Len(sub) + 1) : SubSeq(text, i, i + Len(sub) - 1) = sub

\* the uri of an entity of a cluster, or of distributed storage when the
\* cluster is None, kept as its parts
MapUri(cluster, type, name) == [cluster |-> cluster, type |-> type, name |-> name]

\* the uri as the module formats it
UriText(u) ==
    IF u.cluster # None
    THEN "/vplex/v2/clusters/" \o u.cluster \o "/" \o u.type \o "/" \o u.name
    ELSE "/vplex/v2/distributed_storage/" \o u.type \o "/" \o u.name

\* get_parents and get_childrens, first lines: the uri holds the name of
\* an unsupported entity
UnsupportedUri(u) == \E entity \in unsupported_entity : Contains(UriText(u), entity)

\* the order in which the appliance lists extents and storage views
ExtOrder == <<"e1", "e2">>
SvOrder == <<"sv1", "sv2", "sv3">>

\* the elements of a list that are in a set, in the order of the list
RECURSIVE Filtered(_, _)
Filtered(list, S) ==
    IF list = <<>> THEN <<>>
    ELSE IF Head(list) \in S THEN <<Head(list)>> \o Filtered(Tail(list), S)
    ELSE Filtered(Tail(list), S)

\* the storage volume an extent is built on
StorageVolumeOf(extent) == "S" \o extent

\* no map: the appliance has no such entity
NoMap == [found |-> FALSE, parents |-> <<>>, children |-> <<>>]

\* MapsApi.get_map: the parents and children of an entity, as the appliance
\* derives them from devices, extents, volumes and storage views
MapOf(c, u) ==
    LET cl == u.cluster
        Uris(type, names) == [i \in 1..Len(names) |-> MapUri(cl, type, names[i])]
    IN  IF cl # Cluster THEN NoMap
        ELSE IF u.type = "devices" THEN
            IF u.name \in DOMAIN c.ldevs /\ c.ldevs[u.name].exists
            THEN [found |-> TRUE,
                  parents |-> IF c.ldevs[u.name].virtual_volume # None
                              THEN <<MapUri(cl, "virtual_volumes", c.ldevs[u.name].virtual_volume)>>
                              ELSE <<>>,
                  children |-> Uris("extents", Filtered(ExtOrder, ExtentsOf(c.extents, u.name)))]
            ELSE NoMap
        ELSE IF u.type = "virtual_volumes" THEN
            LET devs == {d \in DOMAIN c.ldevs :
                            c.ldevs[d].exists /\ c.ldevs[d].virtual_volume = u.name}
            IN  IF devs # {}
                THEN [found |-> TRUE,
                      parents |-> Uris("storage_views",
                                       Filtered(SvOrder, {n \in DOMAIN c.views :
                                           c.views[n].exists
                                           /\ u.name \in c.views[n].virtual_volumes})),
                      children |-> <<MapUri(cl, "devices", CHOOSE d \in devs : TRUE)>>]
                ELSE NoMap
        ELSE IF u.type = "extents" THEN
            IF u.name \in DOMAIN c.extents /\ c.extents[u.name].exists
            THEN [found |-> TRUE,
                  parents |-> IF c.extents[u.name].use = "used"
                              THEN <<MapUri(cl, "devices", c.extents[u.name].used_by)>>
                              ELSE <<>>,
                  children |-> <<MapUri(cl, "storage_volumes", StorageVolumeOf(u.name))>>]
            ELSE NoMap
        ELSE IF u.type = "storage_volumes" THEN
            LET exts == {e \in DOMAIN c.extents :
                            c.extents[e].exists /\ StorageVolumeOf(e) = u.name}
            IN  IF exts # {}
                THEN [found |-> TRUE,
                      parents |-> <<MapUri(cl, "extents", CHOOSE e \in exts : TRUE)>>,
                      children |-> <<MapUri(cl, "storage_arrays", "A1")>>]
                ELSE NoMap
        ELSE NoMap

\* VplexMaps.get_map: the map, or fail_json when the call raises ApiException
get_map(c, u) ==
    IF c.status # "run" THEN c
    ELSE IF MapOf(c, u).found THEN c
    ELSE fail_json(c, "remote", "Could not get map")

\* the list has the element
InList(list, x) == \E i \in 1..Len(list) : list[i] = x

\* VplexMaps.get_parents: the queue, a list changed in place, is c.queue
RECURSIVE get_parents(_, _)
RECURSIVE ParentsLoop(_, _, _)
get_parents(c, u) ==
    IF c.status # "run" \/ UnsupportedUri(u) THEN c
    ELSE LET c1 == get_map(c, u)
         IN  IF c1.status # "run" THEN c1
             ELSE LET c2 == ParentsLoop(c1, MapOf(c, u).parents, 1)
                  IN  IF c2.status # "run" \/ InList(c2.queue, u) THEN c2
                      ELSE [c2 EXCEPT !.queue = Append(@, u)]

\* get_parents, the loop over obj.parents
ParentsLoop(c, parents, i) ==
    IF c.status # "run" \/ i > Len(parents) THEN c
    ELSE ParentsLoop(get_parents([c EXCEPT !.queue = <<parents[i]>> \o @], parents[i]),
                     parents, i + 1)

\* dict.update for one key: the value is replaced, a new key goes last
DictPut(dict, key, value) ==
    IF \E i \in 1..Len(dict) : dict[i].key = key
    THEN [i \in 1..Len(dict) |-> IF dict[i].key = key THEN [key |-> key, value |-> value]
                                 ELSE dict[i]]
    ELSE Append(dict, [key |-> key, value |-> value])

\* VplexMaps.get_childrens: the queue, a dict changed in place, is c.stack
RECURSIVE get_childrens(_, _)
RECURSIVE ChildrenLoop(_, _, _)
get_childrens(c, u) ==
    IF c.status # "run" \/ UnsupportedUri(u) THEN c
    ELSE LET c1 == get_map(c, u)
         IN  IF c1.status # "run" THEN c1
             ELSE ChildrenLoop([c1 EXCEPT !.stack = DictPut(@, u, MapOf(c, u).children)],
                               MapOf(c, u).children, 1)

\* get_childrens, the loop over obj.children
ChildrenLoop(c, children, i) ==
    IF c.status # "run" \/ i > Len(children) THEN c
    ELSE ChildrenLoop(get_childrens(c, children[i]), children, i + 1)

\* show_use_hierarchy, first loop: one line per key of the stack, and the
\* storage array after a storage volume
RECURSIVE HierarchyLines(_, _)
HierarchyLines(stack, entity_type) ==
    IF stack = <<>> THEN <<>>
    ELSE LET key == Head(stack).key
             value == Head(stack).value
             line == [star |-> key.type = entity_type, prop |-> key.type, val |-> key.name]
             more == IF value # <<>> /\ value[1].type = "storage_arrays"
                     THEN <<[star |-> FALSE, prop |-> "storage_arrays", val |-> value[1].name]>>
                     ELSE <<>>
         IN  <<line>> \o more \o HierarchyLines(Tail(stack), entity_type)

\* show_use_hierarchy, the indentation: three blanks more for every new
\* label, in the order of first appearance
show_use_hierarchy(stack, entity_type) ==
    LET lines == HierarchyLines(stack, entity_type)
        Label(l) == <<l.star, l.prop>>
        First(i) == CHOOSE j \in 1..i : Label(lines[j]) = Label(lines[i])
                        /\ \A k \in 1..(j - 1) : Label(lines[k]) # Label(lines[i])
        Rank(i) == Cardinality({j \in 1..(First(i) - 1) :
                        \A k \in 1..(j - 1) : Label(lines[k]) # Label(lines[j])})
    IN  [i \in 1..Len(lines) |->
            [indent |-> 3 * Rank(i), star |-> lines[i].star,
             prop |-> lines[i].prop, val |-> lines[i].val]]

\* the context an invocation of the maps module starts from
MapsStart ==
    [ldevs |-> ldevs, extents |-> extents, views |-> views, calls |-> <<>>,
     status |-> "run", kind |-> None, msg |-> None, changed |-> FALSE,
     details |-> <<>>, queue |-> <<>>, stack |-> <<>>]

\* an exception no handler catches ends the invocation
raise(c, exception) == [c EXCEPT !.status = "exception", !.kind = exception]

\* perform_module_operation, lines 333-348: the uri of the entity
MapsStepUri(c, req) ==
    IF req.cluster_name # None \/ req.entity_type \in {"devices", "virtual_volumes"} THEN c
    ELSE fail_json(c, "input", "Input entity_type, without cluster is not supported")

\* the uri and the entity type after lines 333-341
MapsUri(req) ==
    IF req.cluster_name # None
    THEN MapUri(req.cluster_name, req.entity_type, req.entity_name)
    ELSE MapUri(None, "distributed_" \o req.entity_type, req.entity_name)

\* perform_module_operation, lines 351-364: the parents up to the first
\* supported one, the children below it, and the result
MapsStepHierarchy(c, req) ==
    IF c.status # "run" THEN c
    ELSE LET c1 == get_parents(c, MapsUri(req))
             parents == c1.queue
             hits == {i \in 1..Len(parents) : parents[i].type \notin unsupported_entity}
         IN  IF c1.status # "run" THEN c1
             ELSE IF hits = {} THEN raise(c1, "UnboundLocalError")
             ELSE LET index == CHOOSE i \in hits : \A j \in hits : i <= j
                      toplevel_uri == parents[index]
                      stack == [i \in 1..(index - 1) |->
                                   [key |-> parents[i], value |-> <<>>]]
                      c2 == get_childrens([c1 EXCEPT !.stack = stack], toplevel_uri)
                  IN  IF c2.status # "run" THEN c2
                      ELSE [c2 EXCEPT !.status = "ok", !.changed = FALSE,
                                      !.details = show_use_hierarchy(c2.stack, MapsUri(req).type)]

\* VplexMaps.perform_module_operation
Maps_perform_module_operation(req) == MapsStepHierarchy(MapsStepUri(MapsStart, req), req)

\* requests of the maps module; "LX" names nothing, and a name may hold
\* the name of an entity type
MapsRequests ==
    [cluster_name : {None, "cluster-1"},
     entity_type : {"virtual_volumes", "devices", "extents", "storage_volumes"},
     entity_name : {"L1", "L2", "e1", "e2", "v1", "Se1", "LX", "storage_views_L1"}]

\* one run of the maps module
MapsInvocation ==
    LET c == Maps_perform_module_operation(task)
    IN  /\ last' = Outcome("maps", c, FALSE)
        /\ tick' = 1 - tick
        /\ fe_ports' = fe_ports
        /\ procs' = procs
        /\ UNCHANGED <<task, cgVars, vvols, migVars, vvVars, initVars, svVars, devVars, distVars>>

\* appliance states the maps module can meet: devices on their extents,
\* with or without a virtual volume that a storage view may export
InitMaps ==
    /\ task \in MapsRequests
    /\ \E a \in {NoLdev} \cup {Ldev(g, FALSE, v, 2, {}) : g \in {"raid-1", "raid-0"},
                                                       v \in {None, "v1"}},
          b \in {NoLdev, Ldev("raid-1", FALSE, None, 2, {})},
          x \in {Claimed(2), Used("L1", 2)},
          y \in {Claimed(2), Used("L1", 2), Used("L2", 2)},
          exported \in SUBSET {"sv1", "sv2"} :
         /\ a.exists = ("L1" \in {x.used_by, y.used_by})
         /\ b.exists = ("L2" \in {x.used_by, y.used_by})
         /\ exported # {} => a.exists /\ a.virtual_volume = "v1"
         /\ ldevs = [d \in LdevNames |-> IF d = "L1" THEN a ELSE IF d = "L2" THEN b ELSE NoLdev]
         /\ extents = [e \in ExtNames |-> IF e = "e1" THEN x ELSE y]
         /\ views = [n \in SvNames |->
                        IF n \in exported THEN View({"P1"}, {"i1"}, {"v1"}) ELSE NoView]
    /\ degraded = None
    /\ ddevs = [d \in DdNames |-> NoDdev]
    /\ cgs = {}
    /\ dcgs = {}
    /\ remote_cgs = {}
    /\ vvols = [v \in VolNames |-> NoVol]
    /\ jobs = [m \in MigNames |-> NoJob]
    /\ sobjs = [cl \in Clusters |-> [d \in ObjNames |-> NoObj]]
    /\ NoVvState
    /\ ports = NoPorts
    /\ dvvs = [v \in DvvNames |-> NoDvv]
    /\ dcgrps = [g \in DcgNames |-> NoDcg]
    /\ last = NoOutcome
    /\ tick = 0
    /\ fe_ports = NoFePorts
    /\ procs = NoProcs

NextMaps == MapsInvocation

SpecMaps == InitMaps /\ [][NextMaps]_vars

----------------------------------------------------------------------------
(* C30: the terminal result of an invocation *)

InitResult == InitDCG \/ InitMaps

NextResult ==
    \/ "distributed_cg_name" \in DOMAIN task /\ DcgInvocation
    \/ "entity_name" \in DOMAIN task /\ MapsInvocation

SpecResult == InitResult /\ [][NextResult]_vars

\* C30: every invocation ends in a success result or in one failure with a
\* message, never in an exception that nothing handles
C30_OneTerminalResult ==
    last.module # None =>
        \/ last.status = "ok"
        \/ last.status = "failed" /\ last.msg # None

----------------------------------------------------------------------------
(* C31: the capacity of a volume over the expand calls of one invocation *)

\* the expand calls of the latest invocation that name a device
C31_DeviceSteps ==
    SelectSeq(last.calls, LAMBDA k : k.op = "expand" /\ k.val # <<None>>)

----------------------------------------------------------------------------
(* C32: capacities of the source and the target of a create request *)

\* create requests of the data migration module
CapMigRequests ==
    {r \in MigRequests :
        /\ r.migration_name = "m1" /\ r.state = "present"
        /\ r.transfer_size = 0 /\ r.status \in {None, "pause"}
        /\ r.source_name # None}

\* appliance states for CapMigRequests: the job is absent or present, d1
\* and d2 exist in cluster-1 with any of two capacities, and cluster-2 has
\* objects of its own of the same names
InitCapMig ==
    /\ task \in CapMigRequests
    /\ jobs \in [MigNames -> {NoJob,
                   [name |-> "m1", status |-> "paused", transfer_size |-> 131072,
                    source |-> ObjUri("cluster-1", task.storage, "d1"),
                    target |-> ObjUri("cluster-1", task.storage, "d2")]}]
    /\ \E cap1 \in {1, 2}, cap2 \in {1, 2}, rcap \in {0, 1, 2}, used \in BOOLEAN :
         LET Obj(cap, u) ==
                 [exists |-> TRUE, capacity |-> cap,
                  virtual_volume |-> IF task.storage = "device" /\ u THEN "vol" ELSE None,
                  use |-> IF task.storage = "device" THEN None
                          ELSE IF u THEN "used" ELSE "claimed"]
         IN  sobjs = [cl \in Clusters |->
                        IF cl = "cluster-1"
                        THEN [d \in ObjNames |->
                                IF d = "d1" THEN Obj(cap1, used) ELSE Obj(cap2, ~used)]
                        ELSE [d \in ObjNames |->
                                IF rcap = 0 THEN NoObj ELSE Obj(rcap, FALSE)]]
    /\ cgs = {}
    /\ dcgs = {}
    /\ remote_cgs = {}
    /\ vvols = [v \in VolNames |-> NoVol]
    /\ NoVvState
    /\ ports = NoPorts
    /\ NoSvState
    /\ NoDevState
    /\ NoDistState
    /\ last = NoOutcome
    /\ tick = 0
    /\ fe_ports = NoFePorts
    /\ procs = NoProcs

InitCapDD == InitDD /\ task.state = "present"

InitCap == InitCapMig \/ InitCapDD

NextCap ==
    \/ "migration_name" \in DOMAIN task /\ MigInvocation
    \/ "distributed_device_name" \in DOMAIN task /\ DdInvocation

SpecCap == InitCap /\ [][NextCap]_vars

\* the cluster of the target a migration task names
C32_TargetCluster ==
    IF task.target_cluster = None THEN task.cluster_name ELSE task.target_cluster

\* the source and the target a migration task names, as the create payload
\* names them
C32_MigSource == get_storage_object(MigStart, task.cluster_name, task.source_name)
C32_MigTarget == get_storage_object(MigStart, C32_TargetCluster, task.target_name)

\* the source and the target a distributed device task names
C32_DdSource == DdDevice(DdStart(TRUE), task.source_cluster, task.source_device)
C32_DdTarget == DdDevice(DdStart(TRUE), task.target_cluster, task.target_device)

\* the task names a source and a target, and the target is not smaller
C32_Fits ==
    IF "migration_name" \in DOMAIN task
    THEN /\ C32_MigSource.exists /\ C32_MigTarget.exists
         /\ C32_MigSource.capacity <= C32_MigTarget.capacity
    ELSE /\ C32_DdSource.exists /\ C32_DdTarget.exists
         /\ C32_DdSource.capacity <= C32_DdTarget.capacity

\* the task names a source that is larger than the target it names
C32_SourceLarger ==
    IF "migration_name" \in DOMAIN task
    THEN /\ task.cluster_name # None
         /\ C32_MigSource.exists /\ C32_MigTarget.exists
         /\ C32_MigSource.capacity > C32_MigTarget.capacity
         /\ jobs[task.migration_name] = NoJob
    ELSE /\ task.source_device # None /\ task.target_device # None
         /\ task.source_cluster # None /\ task.target_cluster # None
         /\ C32_DdSource.exists /\ C32_DdTarget.exists
         /\ C32_DdSource.capacity > C32_DdTarget.capacity
         /\ ~ddevs[task.distributed_device_name].exists

\* C32: a migration job or a distributed device is created only if the
\* capacity of the target is at least the capacity of the source; a create
\* request whose source is larger than its target fails with no create call
C32_CreateOnlyIfTargetFits ==
    [][/\ CreateSent(last') => C32_Fits
       /\ C32_SourceLarger => last'.status = "failed" /\ ~CreateSent(last')]_vars

\* an extent migration task that gives target_cluster: validate_src_target
\* looks the target up in cluster_name, the create payload names it in
\* target_cluster
C32_ExtentAcrossClusters ==
    /\ "migration_name" \in DOMAIN task
    /\ task.storage = "extent" /\ task.target_cluster # None

\* the statement of C32 for every other create request
C32_HoldsOtherwise ==
    [][~C32_ExtentAcrossClusters
         => /\ CreateSent(last') => C32_Fits
            /\ C32_SourceLarger => last'.status = "failed" /\ ~CreateSent(last')]_vars

----------------------------------------------------------------------------
(* C33: the scope of the volumes added to a consistency group *)

\* appliance states for the membership requests of the consistency group
\* module
InitScopeCG == InitCG /\ task.virtual_volumes # <<>>

\* appliance states for the membership requests of the distributed
\* consistency group module; the volume object the appliance returns
\* carries the locality the module tests
InitScopeDCG ==
    /\ degraded \in {None, "cluster-2"}
    /\ dcgrps \in [DcgNames -> {NoDcg, Dcg(FALSE, "no_automatic_winner", FALSE)}]
    /\ dcgrps["dg3"] = NoDcg
    /\ dvvs \in [DvvNames -> {[Dvv("unexported", g, "DD1") EXCEPT !.locality = loc] :
                                 g \in {None, "dg1", "dg2"},
                                 loc \in {"distributed", "local", "remote"}}]
    /\ \A v \in DvvNames :
          dvvs[v].consistency_group # None => dcgrps[dvvs[v].consistency_group].exists
    /\ cgs = {}
    /\ dcgs = DistributedCgNames(dcgrps)
    /\ remote_cgs = {}
    /\ vvols = [v \in VolNames |-> NoVol]
    /\ ddevs = [d \in DdNames |-> NoDdev]
    /\ task \in {r \in DcgRequests : r.distributed_virtual_volumes # <<>>}
    /\ jobs = [m \in MigNames |-> NoJob]
    /\ sobjs = [cl \in Clusters |-> [d \in ObjNames |-> NoObj]]
    /\ NoVvState
    /\ ports = NoPorts
    /\ NoSvState
    /\ NoDevState
    /\ last = NoOutcome
    /\ tick = 0
    /\ fe_ports = NoFePorts
    /\ procs = NoProcs

InitScope == InitScopeCG \/ InitScopeDCG

NextScope ==
    \/ "cg_name" \in DOMAIN task /\ CgInvocation
    \/ "distributed_cg_name" \in DOMAIN task /\ DcgInvocation

SpecScope == InitScope /\ [][NextScope]_vars

\* the values of the add /virtual_volumes operations of the patches sent
AddedUris(out) ==
    UNION {{out.calls[i].val[j].value :
               j \in {k \in 1..Len(out.calls[i].val) :
                         /\ out.calls[i].val[k].op = "add"
                         /\ out.calls[i].val[k].path = "/virtual_volumes"}} :
           i \in {k \in 1..Len(out.calls) : out.calls[k].op = "patch"}}

\* the volumes those values name
AddedVolumes(out) == {u[3] : u \in AddedUris(out)}

\* the volumes the task lists
C33_Listed ==
    IF "cg_name" \in DOMAIN task THEN Range(task.virtual_volumes)
    ELSE Range(task.distributed_virtual_volumes)

\* the volume is in the scope its group needs: local visibility for a
\* local group, distributed locality for a distributed group
C33_InScope(v) ==
    IF "cg_name" \in DOMAIN task
    THEN v \in DOMAIN vvols /\ vvols[v].exists /\ vvols[v].visibility = "local"
    ELSE v \in DOMAIN dvvs /\ dvvs[v].exists /\ dvvs[v].locality = "distributed"

\* the volume exists with another visibility or locality
C33_OutOfScope(v) ==
    IF "cg_name" \in DOMAIN task
    THEN v \in DOMAIN vvols /\ vvols[v].exists /\ vvols[v].visibility # "local"
    ELSE v \in DOMAIN dvvs /\ dvvs[v].exists /\ dvvs[v].locality # "distributed"

\* the task asks to add a volume that is out of scope
C33_AddOutOfScope ==
    /\ task.state = "present"
    /\ IF "cg_name" \in DOMAIN task THEN task.virtual_volume_state = "present-in-cg"
       ELSE task.distributed_virtual_volume_state = "present-in-cg"
    /\ \E v \in C33_Listed : C33_OutOfScope(v)

\* C33: a volume is added to a local consistency group only if its
\* visibility is local and to a distributed consistency group only if its
\* locality is distributed; a request to add a volume of another
\* visibility or locality fails and sends no patch
C33_AddedOnlyInScope ==
    [][/\ \A v \in AddedVolumes(last') : C33_InScope(v)
       /\ C33_AddOutOfScope => last'.status = "failed" /\ ~PatchSent(last')]_vars

\* a task listed a free local volume and a volume of global visibility
\* for an existing group, and failed on the second without a patch
C33_Witness ==
    /\ "cg_name" \in DOMAIN task /\ task.cg_name \in cgs
    /\ C33_AddOutOfScope
    /\ \E v \in C33_Listed : C33_InScope(v) /\ vvols[v].consistency_group = None
    /\ last.module = "consistency_group" /\ last.status = "failed"
    /\ last.msg = "Virtual volume visibility should be local"
    /\ last.calls = <<>>

----------------------------------------------------------------------------
(* C34: the transfer size of an existing migration job *)

\* the /transfer_size operations of the patches sent
SizeOps(out) ==
    UNION {{out.calls[i].val[j] :
               j \in {k \in 1..Len(out.calls[i].val) :
                         out.calls[i].val[k].path = "/transfer_size"}} :
           i \in {k \in 1..Len(out.calls) : out.calls[k].op = "patch"}}

\* the job the task names, as it is before the invocation
C34_Job == IF task.migration_name \in DOMAIN jobs THEN jobs[task.migration_name] ELSE NoJob

\* the task asks an existing job for a transfer size it does not have
C34_Differs ==
    /\ C34_Job # NoJob /\ task.state = "present"
    /\ task.transfer_size # 0 /\ task.transfer_size # C34_Job.transfer_size

\* the task asks for nothing but a valid transfer size
C34_SizeOnly ==
    /\ task.status = None /\ task.source_name = None
    /\ validate_transfer_size(task.transfer_size)

\* C34: for an existing job a transfer size operation is sent only if the
\* requested size differs from the size of the job and "transfer size" is
\* in the allow-list of the status of the job; it is sent for a committed
\* job, and for a job in error the request fails with no patch
C34_SizePatchOnlyIfAllowed ==
    [][/\ \A o \in SizeOps(last') :
             /\ C34_Differs
             /\ o.value = task.transfer_size
             /\ "transfer size" \in operations(C34_Job.status)
       /\ (C34_Differs /\ C34_Job.status = "committed" /\ C34_SizeOnly)
             => /\ last'.status = "ok" /\ last'.changed
                /\ SizeOps(last') # {}
       /\ (C34_Differs /\ C34_Job.status = "error")
             => last'.status = "failed" /\ ~PatchSent(last')]_vars

\* a committed job has been given another transfer size
C34_Witness ==
    /\ last.module = "data_migration" /\ last.status = "ok" /\ last.changed
    /\ jobs["m1"].status = "committed"
    /\ jobs["m1"].transfer_size = 40960
    /\ SizeOps(last) = {[op |-> "replace", path |-> "/transfer_size", value |-> 40960]}

----------------------------------------------------------------------------
(* C35: the status of a migration job that is deleted *)

\* the statuses in which delete_job sends the delete call
Finished == {"cancelled", "committed"}

\* the task asks to delete an existing job that is not finished
C35_Unfinished ==
    /\ task.state = "absent"
    /\ C34_Job # NoJob /\ C34_Job.status \notin Finished

\* C35: a delete call is issued only when the status of the job is
\* cancelled or committed; a state=absent task for a job in another status
\* fails, issues no delete call, and the job record remains
C35_DeleteOnlyFinishedJob ==
    [][/\ DeleteSent(last') => C34_Job.status \in Finished
       /\ C35_Unfinished
             => /\ last'.status = "failed" /\ ~DeleteSent(last')
                /\ jobs'[task.migration_name] # NoJob]_vars

\* the status operation the same task brings the job to a finished status with
C35_Finishing ==
    /\ task.status \in {"cancel", "commit"}
    /\ task.status \in operations(C34_Job.status)

\* the /status operations of the patches sent
StatusOps(out) ==
    UNION {{out.calls[i].val[j] :
               j \in {k \in 1..Len(out.calls[i].val) :
                         out.calls[i].val[k].path = "/status"}} :
           i \in {k \in 1..Len(out.calls) : out.calls[k].op = "patch"}}

\* C35, amended: a delete call is issued only for a job whose status is
\* cancelled or committed when it was fetched, or has been brought there
\* by the cancel or commit patch of the same invocation; a state=absent
\* task for a job in another status that brings no such operation fails
\* with no delete call and the job record remains, and one that brings an
\* allowed cancel or commit sends that patch and then the delete call
C35_DeleteOnlyAfterFinish ==
    [][/\ DeleteSent(last')
             => /\ C34_Job # NoJob
                /\ \/ C34_Job.status \in Finished
                   \/ /\ C35_Finishing
                      /\ StatusOps(last') =
                            {[op |-> "replace", path |-> "/status", value |-> task.status]}
       /\ (C35_Unfinished /\ ~C35_Finishing)
             => /\ last'.status = "failed" /\ ~DeleteSent(last')
                /\ jobs'[task.migration_name] # NoJob
       /\ (C35_Unfinished /\ C35_Finishing
              /\ (task.transfer_size = 0 \/ validate_transfer_size(task.transfer_size)))
             => /\ last'.status = "ok" /\ last'.changed
                /\ Len(last'.calls) = 2
                /\ last'.calls[1].op = "patch" /\ last'.calls[2].op = "delete"
                /\ jobs'[task.migration_name] = NoJob]_vars

\* a job in progress was asked to be absent and is still there
C35_Witness ==
    /\ task.state = "absent" /\ task.status = None
    /\ last.module = "data_migration" /\ last.status = "failed"
    /\ last.msg = "The migration must first be cancelled or committed"
    /\ last.calls = <<>>
    /\ jobs["m1"] # NoJob /\ jobs["m1"].status = "in-progress"


----------------------------------------------------------------------------
(* C36: an initiator and port pair in two storage views *)

\* two views of the cluster hold a common initiator together with a common
\* port
SvSharedPair(vws) ==
    \E m, n \in DOMAIN vws :
        /\ m # n
        /\ vws[m].exists /\ vws[n].exists
        /\ vws[m].initiators \cap vws[n].initiators # {}
        /\ vws[m].ports \cap vws[n].ports # {}

\* the ports the request asks to put into the view: update_storageview line
\* 434 for a view that exists, create_storageview for one that does not
C36_PortsToAdd(req) ==
    IF req.port_state = "present-in-view"
          \/ (req.port_state = None /\ ~views[req.storage_view_name].exists)
    THEN Range(req.ports) ELSE {}

\* the initiators the request asks to put into the view, update_storageview
\* line 459
C36_InitsToAdd(req) ==
    IF req.initiator_state = "present-in-view" THEN Range(req.initiators) ELSE {}

\* the request adds ports or initiators the cluster has
C36_Adds(req) ==
    /\ req.state = "present"
    /\ C36_PortsToAdd(req) \cup C36_InitsToAdd(req) # {}
    /\ C36_PortsToAdd(req) \subseteq SvPorts
    /\ C36_InitsToAdd(req) \subseteq SvInits

\* the views of the cluster once the addressed view holds what the request
\* adds
C36_Requested(req) ==
    LET v == views[req.storage_view_name]
        had == IF v.exists THEN v ELSE View({}, {}, {})
    IN  [views EXCEPT ![req.storage_view_name] =
            [had EXCEPT !.ports = @ \cup C36_PortsToAdd(req),
                        !.initiators = @ \cup C36_InitsToAdd(req)]]

\* C36 as stated: on a cluster where no two views share an initiator and
\* port pair, a successful storage view request that adds ports or
\* initiators leaves no shared pair, and a request whose added ports or
\* initiators would make one fails and sends no patch.
C36_NoSharedPairAfterAdd ==
    [][("storage_view_name" \in DOMAIN task /\ C36_Adds(task) /\ ~SvSharedPair(views)) =>
          /\ last'.status = "ok" => ~SvSharedPair(views')
          /\ SvSharedPair(C36_Requested(task)) =>
                /\ last'.status = "failed"
                /\ ~PatchSent(last')]_vars


----------------------------------------------------------------------------
(* C37: the mirror of a device looked up in target_cluster *)

\* requests that add or remove a mirror of the module's own cluster or of
\* target_cluster, on a local device and on a distributed device
DevMirrorRequests ==
    {[DevRequest(n, "present", "raid-1", None, <<>>, None, None, mir, mst, 0)
         EXCEPT !.target_cluster = tc] :
        n \in {"L1", "DD1"}, mir \in {"L2", "L3"}, mst \in DevMemberStates,
        tc \in {None} \cup Clusters}

\* appliance states for the mirror requests: devices L2 and L3 of the
\* module's own cluster and of the second cluster exist or not, each on its
\* own; device L1 or the distributed device DD1 may hold L2 as a mirror
InitMirror ==
    /\ task \in DevMirrorRequests
    /\ remote_devs \in SUBSET {"L2", "L3"}
    /\ \E a \in {Ldev("raid-1", FALSE, None, cap, m) : cap \in {1, 2},
                     m \in {{}, {"L2"}, {"cluster-2/L2"}}},
          b \in {NoLdev, Ldev("raid-1", FALSE, None, 1, {}), Ldev("raid-1", FALSE, None, 2, {})},
          d \in {NoLdev, Ldev("raid-1", FALSE, None, 2, {})},
          dd \in {Ddev(None, "done", None, {}), Ddev("dv1", "done", None, {"L2"})} :
         /\ "L2" \in a.mirrors \cup dd.legs => b.exists
         /\ ldevs = [n \in LdevNames |-> IF n = "L1" THEN a ELSE IF n = "L2" THEN b
                                          ELSE IF n = "L3" THEN d ELSE NoLdev]
         /\ ddevs = [n \in DdNames |-> IF n = "DD1" THEN dd ELSE NoDdev]
         /\ "cluster-2/L2" \in a.mirrors => "L2" \in remote_devs
    /\ extents = [e \in ExtNames |-> Claimed(2)]
    /\ degraded = None
    /\ cgs = {}
    /\ dcgs = {}
    /\ remote_cgs = {}
    /\ vvols = [v \in VolNames |-> NoVol]
    /\ jobs = [m \in MigNames |-> NoJob]
    /\ sobjs = [cl \in Clusters |-> [o \in ObjNames |-> NoObj]]
    /\ devices = NoDevices
    /\ dist_vols = {}
    /\ remote_vols = {}
    /\ vplex_version = 6
    /\ directors_ok = TRUE
    /\ ports = NoPorts
    /\ NoSvState
    /\ dvvs = [v \in DvvNames |-> NoDvv]
    /\ dcgrps = [g \in DcgNames |-> NoDcg]
    /\ last = NoOutcome
    /\ tick = 0
    /\ fe_ports = NoFePorts
    /\ procs = NoProcs

NextMirror == DevInvocation

SpecMirror == InitMirror /\ [][NextMirror]_vars

\* perform_module_operation, lines 772-773: the cluster of the mirror
C37_TargetCluster ==
    IF task.target_cluster = None THEN Cluster ELSE task.target_cluster

\* a device of that name exists in that cluster
C37_ExistsIn(cluster_name, device_name) ==
    IF cluster_name = Cluster THEN ldevs[device_name].exists
    ELSE device_name \in remote_devs

\* the mirror of the task is asked to be present, so that updatemirror
\* looks it up with validate_device (lines 703-707)
C37_Case ==
    /\ "device_name" \in DOMAIN task
    /\ task.state = "present"
    /\ task.mirror_name # None
    /\ task.mirror_state = "present-in-device"

\* C37 as stated: get_device returns the record exactly when the device
\* exists in the cluster passed to it, so validate_device finds the mirror
\* of a task exactly when a device of that name exists in target_cluster,
\* whatever the devices of the local cluster are.
C37_MirrorFoundWhereItIs ==
    [][C37_Case =>
          /\ (get_device(DevStart, C37_TargetCluster, task.mirror_name) # NoDevDetails)
                <=> C37_ExistsIn(C37_TargetCluster, task.mirror_name)
          /\ (last'.status = "failed" /\ last'.msg = "Mirror not present")
                <=> ~C37_ExistsIn(C37_TargetCluster, task.mirror_name)]_vars


----------------------------------------------------------------------------
(* C38: expand of a distributed virtual volume that cannot be expanded *)

\* the volume the task addresses, as line 576-598 fetch it
C38_Fetched == DvvStepGet(DvvStart, task).details

\* the task asks to expand an existing volume whose expansion_method is
\* "not-supported"
C38_Case ==
    /\ "distributed_virtual_volume_name" \in DOMAIN task
    /\ task.state = "present"
    /\ task.expand
    /\ C38_Fetched # NoDvvDetails
    /\ C38_Fetched.expansion_method = "not-supported"

\* an expand call is in the call log
ExpandSent(out) == \E i \in 1..Len(out.calls) : out.calls[i].op = "expand"

\* C38 as stated: a request to expand a distributed virtual volume whose
\* expansion_method is "not-supported" fails with an error message and
\* sends no expand call.
C38_NotSupportedExpandFails ==
    [][C38_Case =>
          /\ last'.status = "failed"
          /\ last'.msg # None
          /\ ~ExpandSent(last')]_vars


----------------------------------------------------------------------------
(* Port module *)

\* the record standing for "no port" (Python None)
NoPortDetails == [name |-> None, enabled |-> FALSE]

\* ExportsApi.get_port, serialized
FePortRecord(pts, name) ==
    IF name \in DOMAIN pts /\ pts[name].exists
    THEN [name |-> name, enabled |-> pts[name].enabled]
    ELSE NoPortDetails

\* the bool parameter enabled as the module reads it; the caller has made
\* sure it is given
PortEnabled(req) == req.enabled = "true"

\* VplexPort.get_port: a read the appliance refuses returns None
get_port(c, req) == FePortRecord(c.fe_ports, req.port_name)

\* VplexPort.en_dis_port
en_dis_port(c, req) ==
    LET op == [op |-> "replace", path |-> "/enabled", value |-> PortEnabled(req)]
        called == [c EXCEPT !.calls = Append(@, Call("patch", req.port_name, <<op>>)),
                            !.patch = <<op>>]
        pts == [c.fe_ports EXCEPT ![req.port_name].enabled = PortEnabled(req)]
    IN  [called EXCEPT !.fe_ports = pts, !.details = FePortRecord(pts, req.port_name)]

\* the context an invocation of the port module starts from
PortStart ==
    [fe_ports |-> fe_ports, calls |-> <<>>, status |-> "run", kind |-> None,
     msg |-> None, changed |-> FALSE, details |-> NoPortDetails, patch |-> <<>>]

\* VplexPort.perform_module_operation
Port_perform_module_operation(req) ==
    LET c == [PortStart EXCEPT !.details = get_port(PortStart, req)]
    IN  IF c.details = NoPortDetails /\ req.state = "absent"
        THEN [c EXCEPT !.status = "ok"]
        ELSE IF c.details = NoPortDetails /\ req.state = "present"
        THEN fail_json(c, "precondition", "Could not get the details of the port")
        ELSE IF req.enabled # None /\ PortEnabled(req) # c.details.enabled
        THEN [en_dis_port(c, req) EXCEPT !.changed = TRUE, !.status = "ok"]
        ELSE [c EXCEPT !.status = "ok"]

\* the requests of the port module
PortRequests ==
    [port_name : FePortNames \cup {"PX"}, enabled : {None, "true", "false"},
     state : {"present", "absent"}]

\* one run of the port module
PortInvocation ==
    LET c == Port_perform_module_operation(task)
    IN  /\ fe_ports' = c.fe_ports
        /\ procs' = procs
        /\ last' = Outcome("port", c, c.fe_ports # fe_ports)
        /\ tick' = 1 - tick
        /\ UNCHANGED <<task, cgVars, vvols, migVars, vvVars, initVars, svVars, devVars,
                       distVars>>

\* a front-end port, enabled or disabled
FePort(enabled) == [exists |-> TRUE, enabled |-> enabled]

\* every port is missing, enabled or disabled
InitPort ==
    /\ task \in PortRequests
    /\ fe_ports \in [FePortNames -> {NoFePort, FePort(TRUE), FePort(FALSE)}]
    /\ procs = NoProcs
    /\ cgs = {}
    /\ dcgs = {}
    /\ remote_cgs = {}
    /\ vvols = [v \in VolNames |-> NoVol]
    /\ jobs = [m \in MigNames |-> NoJob]
    /\ sobjs = [cl \in Clusters |-> [o \in ObjNames |-> NoObj]]
    /\ NoVvState
    /\ ports = NoPorts
    /\ NoSvState
    /\ NoDevState
    /\ NoDistState
    /\ last = NoOutcome
    /\ tick = 0

NextPort == PortInvocation

SpecPort == InitPort /\ [][NextPort]_vars

----------------------------------------------------------------------------
(* C39: the port module with state=absent *)

\* the task asks for state=absent on a port that exists
C39_Case ==
    /\ "port_name" \in DOMAIN task
    /\ task.state = "absent"
    /\ task.port_name \in DOMAIN fe_ports
    /\ fe_ports[task.port_name].exists

\* C39 as stated: with state=absent the port module sends no patch; for
\* an existing port, whatever enabled is given, the port's enabled flag
\* stays as it was and changed=false is reported.
C39_AbsentNeverPatches ==
    [][C39_Case =>
          /\ ~PatchSent(last')
          /\ fe_ports' = fe_ports
          /\ ~last'.changed]_vars


----------------------------------------------------------------------------
(* C40: two consistency group invocations side by side *)

\* the two invocations, and the group each of them addresses
RaceProcs == {"A", "B"}
RaceGroup(p) == IF p = "A" THEN "cg1" ELSE "cg2"

\* the request of an invocation: volumes to add to or to remove from its
\* group, which exists
RaceRequests(p) ==
    {r \in CgRequests :
        /\ r.cg_name = RaceGroup(p)
        /\ r.state = "present"
        /\ r.new_cg_name = None
        /\ r.virtual_volumes # <<>>
        /\ \A i \in 1..Len(r.virtual_volumes) : r.virtual_volumes[i] \in VolNames}

\* the context an invocation starts from: the appliance as it is now
RaceStart ==
    [cgs |-> cgs, dcgs |-> dcgs, vvols |-> vvols, calls |-> <<>>,
     status |-> "run", kind |-> None, msg |-> None, changed |-> FALSE,
     details |-> NoCg, patch |-> <<>>]

\* perform_module_operation, lines 463-554: fetch the group, check every
\* requested volume on what is fetched, plan the operations
RacePlan(req) ==
    CgStepRename(CgStepVolumes(CgStepCreate(CgStepDelete(RaceStart, req), req), req), req)

\* RaceSend fetching the volumes again before the patch and giving up when
\* a volume to add has got a group meanwhile
RaceSendRechecked(c, req) ==
    LET now == [c EXCEPT !.cgs = cgs, !.vvols = vvols]
        taken == \E i \in 1..Len(c.patch) :
                    /\ c.patch[i].op = "add"
                    /\ c.patch[i].path = "/virtual_volumes"
                    /\ vvols[c.patch[i].value[3]].consistency_group # None
    IN  IF taken
        THEN fail_json(now, "precondition", "Virtual volume is used by another Consistency group")
        ELSE CgStepUpdate(now, req)

\* perform_module_operation, lines 556-563: the planned batch is sent to
\* the appliance as it is at that moment; nothing is fetched again
RaceSend(c, req) == CgStepUpdate([c EXCEPT !.cgs = cgs, !.vvols = vvols], req)

\* invocation p fetches, checks and plans; with nothing to send, or after a
\* failed check, it is over
RaceCheck(p) ==
    /\ procs[p].pc = "start"
    /\ LET c == RacePlan(task[p])
           over == c.status # "run" \/ Len(c.patch) = 0
           d == IF over THEN CgStepUpdate(c, task[p]) ELSE c
       IN  /\ procs' = [procs EXCEPT ![p] = [pc |-> IF over THEN "done" ELSE "planned",
                                             c |-> d]]
           /\ last' = IF over THEN Outcome("consistency_group", d, FALSE) ELSE last
    /\ tick' = 1 - tick
    /\ UNCHANGED <<cgVars, vvols, task, migVars, vvVars, initVars, svVars, devVars,
                   distVars, fe_ports>>

\* invocation p sends the batch it planned
RacePatch(p) ==
    /\ procs[p].pc = "planned"
    /\ LET d == RaceSend(procs[p].c, task[p])
       IN  /\ procs' = [procs EXCEPT ![p] = [pc |-> "done", c |-> d]]
           /\ cgs' = d.cgs
           /\ vvols' = d.vvols
           /\ last' = Outcome("consistency_group", d, d.cgs # cgs \/ d.vvols # vvols)
    /\ tick' = 1 - tick
    /\ UNCHANGED <<dcgs, remote_cgs, task, migVars, vvVars, initVars, svVars, devVars,
                   distVars, fe_ports>>

\* both groups exist, every volume is free or in one of them, and each
\* invocation has its request
InitRace ==
    /\ cgs = {"cg1", "cg2"}
    /\ dcgs = {}
    /\ remote_cgs = {}
    /\ vvols \in [VolNames -> {Vol(g, vis, "unexported", "D0", 1, 0) :
                                 g \in {None, "cg1", "cg2"}, vis \in {"local", "global"}}]
    /\ task \in [RaceProcs -> UNION {RaceRequests(p) : p \in RaceProcs}]
    /\ \A p \in RaceProcs : task[p] \in RaceRequests(p)
    /\ procs = [p \in RaceProcs |-> [pc |-> "start", c |-> RaceStart]]
    /\ jobs = [m \in MigNames |-> NoJob]
    /\ sobjs = [cl \in Clusters |-> [d \in ObjNames |-> NoObj]]
    /\ NoVvState
    /\ ports = NoPorts
    /\ NoSvState
    /\ NoDevState
    /\ NoDistState
    /\ fe_ports = NoFePorts
    /\ last = NoOutcome
    /\ tick = 0

NextRace == \E p \in RaceProcs : RaceCheck(p) \/ RacePatch(p)

SpecRace == InitRace /\ [][NextRace]_vars

\* the adds of volume v among the calls an invocation has sent
RaceAddSent(p, v) ==
    \E i \in 1..Len(procs[p].c.calls) :
        /\ procs[p].c.calls[i].op = "patch"
        /\ \E j \in 1..Len(procs[p].c.calls[i].val) :
              procs[p].c.calls[i].val[j] =
                 get_cgrp_patch_payload("add", "/virtual_volumes", get_v_vol_uri(Cluster, v))

\* C40: nothing stands between the fetch and the patch of an invocation:
\* once its checks have passed on what it fetched, it sends exactly the
\* batch it planned, whatever the other invocation has done to the
\* appliance meanwhile; so both invocations can pass the ownership check
\* for the same free volume and both send their add.
C40_NoProtectionBetweenFetchAndPatch ==
    [][\A p \in RaceProcs :
          procs[p].pc = "planned" /\ procs'[p].pc = "done" =>
             /\ Len(procs'[p].c.calls) = 1
             /\ procs'[p].c.calls[1] = Call("patch", RaceGroup(p), procs[p].c.patch)]_vars

\* C40 witness: both invocations asked for the same volume present-in-cg,
\* each in its own group, both passed their checks and both have sent
\* their add of that volume
C40_Witness ==
    /\ DOMAIN procs = RaceProcs
    /\ \A p \in RaceProcs : procs[p].pc = "done"
    /\ \E v \in VolNames :
          \A p \in RaceProcs :
             /\ task[p].virtual_volume_state = "present-in-cg"
             /\ v \in Range(task[p].virtual_volumes)
             /\ RaceAddSent(p, v)

====
